---- MODULE Spec2Model ----
(***************************************************************************)
(* Model of the web UI server of claude-code-sandbox:                      *)
(*   - WebUIServer (src/src/web-server.ts, lines 1-559): the session       *)
(*     registry, the output multiplexer with its replay history, the       *)
(*     single-flight sync scheduler, the monitoring timers and stop();     *)
(*   - ShadowRepository (src/unnamed/part_000, lines 195-538): initialize, *)
(*     syncFromContainer with its two transfer paths, getChanges, cleanup. *)
(* Node runs every handler to its next await without interruption, so each *)
(* action below is one such run-to-await segment of a handler.             *)
(***************************************************************************)
EXTENDS Integers, Sequences, FiniteSets, TLC

\* ------------------------------------------------------------- bounds
MaxSessions == 2        \* session objects created in one behaviour
MaxChunks == 2          \* chunks the exec streams emit in one behaviour
MaxAttach == 2          \* attach requests handled in one behaviour
MaxTicks == 2           \* timer ticks in one behaviour
MaxGit == 2             \* commit and push requests in one behaviour
MaxEdits == 2           \* changes of a container's workspace in one behaviour
MaxMenus == 1           \* commits the git monitor reports in one behaviour
MaxGitCalls == 3        \* git invocations inside the container in one behaviour
MaxInputs == 1          \* input events of one viewer in one behaviour
HistoryChunks == 3      \* chunks of one stream in a behaviour of the history alone
LiveTicks == 3          \* timer ticks in a behaviour of the timer under fairness

\* ------------------------------------------------------------- constants
HistoryCap == 100000    \* web-server.ts:138
HeaderSize == 8         \* web-server.ts:122,125
OwnershipApproaches == 3  \* part_000:328 (and 333, 338)
InstallCommands == 4    \* part_000:387

Viewers == {"v1", "v2"}             \* socket ids
Containers == {"c1", "c2"}          \* container ids
SessionIds == 1..MaxSessions        \* identities of SessionInfo objects
NoSession == 0
NoContainer == "-"

\* A raw chunk is known by its identity (which bytes), its first byte and its
\* length; a Buffer derived from it by slice(off) is [id, off, len].
NoChunk == [id |-> 0, off |-> 0, len |-> 0]
\* Buffer.from('\x1b[2J\x1b[H'): 7 bytes that no stream chunk carries (id 0).
ClearScreen == [id |-> 0, off |-> 0, len |-> 7]
\* The chunk of a 'data' event as the stream delivers it: its identity, its
\* first byte and its length.
NoRaw == [id |-> 0, first |-> 0, len |-> 0]

\* The shapes of raw chunks the streams deliver: <<first byte, length>>.
\*   27 = ESC (plain terminal output), 1..3 = the bytes the header test accepts.
ChunkShapes ==
    { <<27, 8>>, <<2, 9>>, <<1, 50008>>, <<27, 100001>> }

VARIABLES
    sockState,            \* socket id -> "open" | "closed" (io.on('connection'), line 74, has run)
    sessions,             \* this.sessions: container id -> SessionInfo object (or NoSession)
    sessionKeys,          \* the keys of this.sessions in the order the Map iterates them
    sess,                 \* the SessionInfo objects, by identity
    attach,               \* the attach handler's position, per socket
    received,             \* the events each socket has been sent, in order
    timers,               \* container id -> number of live setInterval timers
    monitoringIntervals,  \* keys of this.monitoringIntervals
    chunksLeft,           \* chunks the streams may still emit (bounds the behaviour)
    attachLeft,           \* attach requests still to come (bounds the behaviour)
    syncInProgress,       \* this.syncInProgress
    shadowRepos,          \* this.shadowRepos: container id -> "none" | "uninit" | "init"
                          \*   (no entry, or the entry's `initialized` flag)
    run,                  \* performSync's position and locals, per container
    disk,                 \* shadow path -> what is on disk there
    tempCopy,             \* /tmp/claude-shadows/temp-copy on disk
    pendingCleanup,       \* shadow paths with a cleanup() call not yet run
    lastTick,             \* the last timer tick and whether it was dropped
    ticksLeft,            \* timer ticks still to come (bounds the behaviour)
    running,              \* container id -> performSync calls past line 341
                          \*   and not yet through the finally of line 447
    outcome,              \* container id -> how its last run ended
    synced,               \* container id -> the files the last run that ended with
                          \*   sync-complete took from the container
    stopPc,               \* stop()'s position
    stopVisited,          \* shadow repositories stop() has iterated over
    commit,               \* the commit-changes handler's position, per socket
    push,                 \* the push-changes handler's position, per socket
    pushes,               \* git push commands executed so far
    gitLeft,              \* commit and push requests still to come (bounds the behaviour)
    workspace,            \* container id -> the files of its /workspace
    staging,              \* container id -> the files of its /tmp/sync-staging
    editsLeft,            \* changes of a workspace still to come (bounds the behaviour)
    menu,                 \* ClaudeSandbox.handleCommit's position
    cliPushes,            \* git pushes ClaudeSandbox has executed in the original repository
    menusLeft,            \* commits the git monitor may still report (bounds the behaviour)
    containerGit,         \* inside the container: the marker file /tmp/.branch-created,
                          \*   the checked-out branch and the branches of /workspace
    lastGit,              \* the last git invocation inside the container and its exit status
    gitCallsLeft,         \* git invocations still to come (bounds the behaviour)
    typed,                \* socket id -> input events the socket has sent
    lastChunk,            \* the chunk the last 'data' event of a stream carried
    ident                 \* container -> the identifier the clients name it by

sessVars == << sockState, sessions, sessionKeys, sess, attach, received, chunksLeft,
              attachLeft >>
timerVars == << timers, monitoringIntervals >>
flight == << syncInProgress, running, outcome, synced >>
syncVars == << flight, shadowRepos, run, disk, tempCopy, pendingCleanup,
               lastTick, ticksLeft >>
stopVars == << stopPc, stopVisited >>
gitVars == << commit, push, pushes, gitLeft >>
envVars == << workspace, staging, editsLeft >>
cliVars == << menu, cliPushes, menusLeft >>
boxVars == << containerGit, lastGit, gitCallsLeft >>
vars == << sessVars, timerVars, syncVars, stopVars, gitVars, envVars, cliVars,
          boxVars, typed, lastChunk, ident >>

\* ------------------------------------------------------------- files
\* The containerId of a request is a string the client chooses, a container
\* id or a container name (web-server.ts lines 78-81; container.ts lines
\* 246-248 name a container claude-code-sandbox-<time>); it is written here
\* as << its first 12 characters, the characters after them >>.
PlainIds == [c \in Containers |-> << c, "" >>]
IdPool ==
    { << "c1", "" >>, << "c2", "" >>,
      << "claude-code-", "sandbox-1" >>, << "claude-code-", "sandbox-2" >> }
\* Two containers never bear the same identifier.
IdChoices ==
    { f \in [Containers -> IdPool] :
        \A a, b \in Containers : a # b => f[a] # f[b] }

\* containerId.substring(0, 12), web-server.ts line 349.
SessionId(id) == id[1]

\* ShadowRepository's constructor, part_000 lines 213-218: path.join of the
\* base path and the sessionId.
ShadowPath(c) == << "/tmp/claude-shadows", SessionId(ident[c]) >>
Paths == { << "/tmp/claude-shadows", SessionId(id) >> : id \in IdPool }

\* A file is <<where it comes from, the top-level directory it lies in>>.
RepoFile == << "repo", "src" >>
WorkFile(c) == << c, "src" >>
NoteFile(c) == << c, "docs" >>
\* /workspace of container c: the files of the repository and one of its own.
Workspace(c) == { RepoFile, WorkFile(c) }
\* The files a process of container c can have in /workspace.
FilePool(c) == { RepoFile, WorkFile(c), NoteFile(c) }
\* Files of container c in directories that hold dependencies: installed
\* packages and a Python virtual environment.
BuildFiles(c) == { << c, "node_modules" >>, << c, ".venv" >> }
AllFiles == UNION { FilePool(c) \cup BuildFiles(c) : c \in Containers }

\* part_000 lines 423-427 and line 458.
RsyncExcludes == { ".git", "node_modules", ".next", "dist", "build" }
DockerCpExcludes == RsyncExcludes \cup { "__pycache__", ".venv" }
Excluded(dirs) == { f \in AllFiles : f[2] \in dirs }

\* What is at a shadow path: the working tree, and of its .git the tree of
\* HEAD, the index, whether the remote origin is configured, the checked-out
\* branch, the local branches and the number of commits made on top of the
\* initial one.
SourceBranch == "source"      \* git branch --show-current in originalRepo
ClaudeBranch == "claude"      \* options.claudeBranch
DefaultBranch == "master"     \* the branch git init starts a repository on
NoBranch == "-"
Absent == [exists |-> FALSE, git |-> FALSE, tree |-> {}, head |-> {}, index |-> {},
           origin |-> FALSE, branch |-> NoBranch, branches |-> {}, commits |-> 0]
NoTemp == [exists |-> FALSE, files |-> {}]
NoSync == [done |-> FALSE, files |-> {}]
NoSummary == [modified |-> 0, added |-> 0, deleted |-> 0]

\* ------------------------------------------------------------- helpers
Event(type, c, d, info) ==
    [type |-> type, containerId |-> c, data |-> d, info |-> info]

RECURSIVE SumLen(_)
SumLen(hist) ==
    IF hist = << >> THEN 0 ELSE Head(hist).len + SumLen(Tail(hist))

Allocated == { s \in SessionIds : sess[s].stream # "none" }

FreshSession == [containerId |-> NoContainer, connectedSockets |-> {},
                 outputHistory |-> << >>, stream |-> "none", broadcast |-> << >>,
                 written |-> 0]

\* Map.prototype.set and delete on the keys of this.sessions: a new key goes
\* last, a key that is set again keeps its place.
KeySet(keys, c) ==
    IF \E i \in 1..Len(keys) : keys[i] = c THEN keys ELSE Append(keys, c)
KeyDelete(keys, c) == SelectSeq(keys, LAMBDA k : k # c)

\* this.io.sockets.sockets.get(socketId): defined for connected sockets only.
Open(v) == sockState[v] = "open"

\* Emit with the loop left after its first socket.
EmitFirstOnly(rcv, to, ev) ==
    [v \in Viewers |->
        IF v \in to /\ Open(v) /\ v = CHOOSE w \in to : TRUE
        THEN Append(rcv[v], ev) ELSE rcv[v]]

\* socket.emit / connectedSocket.emit of one event to every socket of `to`.
Emit(rcv, to, ev) ==
    [v \in Viewers |-> IF v \in to /\ Open(v) THEN Append(rcv[v], ev) ELSE rcv[v]]

\* ------------------------------------------------------------- multiplexer
\* Decode with the length test of line 122 taken as "at least 8 bytes".
DecodeAtLeast(raw) ==
    IF raw.len >= HeaderSize
    THEN IF raw.first >= 1 /\ raw.first <= 3
         THEN [id |-> raw.id, off |-> HeaderSize, len |-> raw.len - HeaderSize]
         ELSE [id |-> raw.id, off |-> 0, len |-> raw.len]
    ELSE [id |-> raw.id, off |-> 0, len |-> raw.len]

\* stream.on('data'), lines 120-131: the header-decode step.
Decode(raw) ==
    IF raw.len > HeaderSize
    THEN IF raw.first >= 1 /\ raw.first <= 3
         THEN [id |-> raw.id, off |-> HeaderSize, len |-> raw.len - HeaderSize]
         ELSE [id |-> raw.id, off |-> 0, len |-> raw.len]
    ELSE [id |-> raw.id, off |-> 0, len |-> raw.len]

\* lines 138-140: the while loop; totalSize is computed once, before the loop.
RECURSIVE EvictLoop(_, _)
EvictLoop(hist, totalSize) ==
    IF totalSize > HistoryCap /\ Len(hist) > 1
    THEN EvictLoop(Tail(hist), totalSize)
    ELSE hist

\* lines 136-140: push, reduce, evict.
PushHistory(hist, d) ==
    LET pushed == Append(hist, d)
    IN  EvictLoop(pushed, SumLen(pushed))

\* ------------------------------------------------------------- timers
\* startContinuousMonitoring, lines 451-465.
StartMonitoring(c) ==
    /\ timers' = [timers EXCEPT ![c] =
                    (IF c \in monitoringIntervals THEN @ - 1 ELSE @) + 1]
    /\ monitoringIntervals' = monitoringIntervals \cup {c}

\* stopContinuousMonitoring, lines 467-473.
StopMonitoring(c) ==
    /\ timers' = [timers EXCEPT ![c] =
                    IF c \in monitoringIntervals THEN @ - 1 ELSE @]
    /\ monitoringIntervals' = monitoringIntervals \ {c}

\* ------------------------------------------------------------- sockets
\* Disconnect that also drops the sessions left without a viewer.
DisconnectPurging(v) ==
    /\ sockState[v] = "open"
    /\ sockState' = [sockState EXCEPT ![v] = "closed"]
    /\ sess' = [s \in SessionIds |->
                  IF \E c \in Containers : sessions[c] = s
                  THEN [sess[s] EXCEPT !.connectedSockets = @ \ {v}]
                  ELSE sess[s]]
    /\ sessions' = [c \in Containers |->
                      IF sessions[c] # NoSession
                         /\ sess[sessions[c]].connectedSockets \subseteq {v}
                      THEN NoSession ELSE sessions[c]]
    /\ sessionKeys' = SelectSeq(sessionKeys, LAMBDA c :
                          ~(sess[sessions[c]].connectedSockets \subseteq {v}))
    /\ UNCHANGED << attach, received, timers,
                    monitoringIntervals, chunksLeft, attachLeft,
                    syncVars, stopVars, gitVars, envVars, cliVars, boxVars, typed, lastChunk, ident >>

\* socket.on('disconnect'), lines 325-332: only the sessions of the registry
\* are visited.
Disconnect(v) ==
    /\ sockState[v] = "open"
    /\ sockState' = [sockState EXCEPT ![v] = "closed"]
    /\ sess' = [s \in SessionIds |->
                  IF \E c \in Containers : sessions[c] = s
                  THEN [sess[s] EXCEPT !.connectedSockets = @ \ {v}]
                  ELSE sess[s]]
    /\ UNCHANGED << sessions, sessionKeys, attach, received, timers,
                    monitoringIntervals, chunksLeft, attachLeft,
                    syncVars, stopVars, gitVars, envVars, cliVars, boxVars, typed, lastChunk, ident >>

\* ------------------------------------------------------------- attach
\* Replay with the history walked from its newest chunk.
ReplayNewestFirst(hist) ==
    IF Len(hist) > 0
    THEN << Event("output", NoContainer, ClearScreen, "") >>
         \o [i \in 1..Len(hist) |->
               Event("output", NoContainer, hist[Len(hist) + 1 - i], "")]
    ELSE << >>

\* The replay of lines 192-200.
Replay(hist) ==
    IF Len(hist) > 0
    THEN << Event("output", NoContainer, ClearScreen, "") >>
         \o [i \in 1..Len(hist) |-> Event("output", NoContainer, hist[i], "")]
    ELSE << >>

\* socket.on('attach'), lines 77-86 and 186-215: up to the first await. With a
\* session registered the whole handler runs here.
AttachBegin(v, c) ==
    /\ Open(v)
    /\ attach[v].pc = "idle"
    /\ attachLeft > 0
    /\ attachLeft' = attachLeft - 1
    /\ IF sessions[c] = NoSession \/ sess[sessions[c]].stream = "none"
       THEN /\ attach' = [attach EXCEPT ![v] = [pc |-> "exec", containerId |-> c]]
            /\ UNCHANGED << sess, received >>
       ELSE LET s == sessions[c] IN
            /\ sess' = [sess EXCEPT ![s].connectedSockets = @ \cup {v}]
            /\ received' = [received EXCEPT ![v] =
                              @ \o Replay(sess[s].outputHistory)
                                \o << Event("attached", c, NoChunk, "") >>]
            /\ UNCHANGED attach
    /\ UNCHANGED << sockState, sessions, sessionKeys, timers, monitoringIntervals, chunksLeft,
                    syncVars, stopVars, gitVars, envVars, cliVars, boxVars, typed, lastChunk, ident >>

\* await container.exec(...), lines 89-101, resolved.
AttachExecCreated(v) ==
    /\ attach[v].pc = "exec"
    /\ attach' = [attach EXCEPT ![v].pc = "start"]
    /\ UNCHANGED << sockState, sessions, sessionKeys, sess, received, timers,
                    monitoringIntervals, chunksLeft, attachLeft,
                    syncVars, stopVars, gitVars, envVars, cliVars, boxVars, typed, lastChunk, ident >>

\* await exec.start(...), lines 103-106, resolved; lines 108-185 and 203-215.
AttachFinish(v) ==
    /\ attach[v].pc = "start"
    /\ Cardinality(Allocated) < MaxSessions
    /\ LET c == attach[v].containerId
           s == Cardinality(Allocated) + 1
       IN  /\ sess' = [sess EXCEPT ![s] =
                         [containerId |-> c, connectedSockets |-> {v},
                          outputHistory |-> << >>, stream |-> "live",
                          broadcast |-> << >>, written |-> 0]]
           /\ sessions' = [sessions EXCEPT ![c] = s]
           /\ sessionKeys' = KeySet(sessionKeys, c)
           /\ StartMonitoring(c)
           /\ received' = Emit(received, {v}, Event("attached", c, NoChunk, ""))
    /\ attach' = [attach EXCEPT ![v] = [pc |-> "idle", containerId |-> NoContainer]]
    /\ UNCHANGED << sockState, chunksLeft, attachLeft, syncVars, stopVars, gitVars, envVars, cliVars, boxVars, typed, lastChunk, ident >>

\* AttachFail with the error sent to every connected socket.
AttachFailBroadcast(v) ==
    /\ attach[v].pc \in {"exec", "start"}
    /\ received' = Emit(received, Viewers,
                        Event("error", attach[v].containerId, NoChunk, ""))
    /\ attach' = [attach EXCEPT ![v] = [pc |-> "idle", containerId |-> NoContainer]]
    /\ UNCHANGED << sockState, sessions, sessionKeys, sess, timers, monitoringIntervals,
                    chunksLeft, attachLeft, syncVars, stopVars, gitVars, envVars, cliVars, boxVars, typed, lastChunk, ident >>

\* container.exec or exec.start rejected: the catch of lines 217-220.
AttachFail(v) ==
    /\ attach[v].pc \in {"exec", "start"}
    /\ received' = Emit(received, {v},
                        Event("error", attach[v].containerId, NoChunk, ""))
    /\ attach' = [attach EXCEPT ![v] = [pc |-> "idle", containerId |-> NoContainer]]
    /\ UNCHANGED << sockState, sessions, sessionKeys, sess, timers, monitoringIntervals,
                    chunksLeft, attachLeft, syncVars, stopVars, gitVars, envVars, cliVars, boxVars, typed, lastChunk, ident >>

\* ------------------------------------------------------------- input
\* socket.on('input'), lines 239-247: the sessions of the registry are visited
\* in the order of the Map, and the first one that has the socket in its
\* viewer set and a stream gets the write. A stream that has failed takes in
\* nothing.
Input(v) ==
    /\ Open(v)
    /\ typed[v] < MaxInputs
    /\ typed' = [typed EXCEPT ![v] = @ + 1]
    /\ LET hits == { i \in 1..Len(sessionKeys) :
                       /\ v \in sess[sessions[sessionKeys[i]]].connectedSockets
                       /\ sess[sessions[sessionKeys[i]]].stream # "none" }
       IN  IF hits = {}
           THEN UNCHANGED sess
           ELSE LET first == CHOOSE i \in hits : \A j \in hits : i <= j
                    s == sessions[sessionKeys[first]]
                IN  sess' = [sess EXCEPT ![s].written =
                               IF sess[s].stream = "live" THEN @ + 1 ELSE @]
    /\ UNCHANGED << sockState, sessions, sessionKeys, attach, received, chunksLeft,
                    attachLeft, timerVars, syncVars, stopVars, gitVars, envVars,
                    cliVars, boxVars, lastChunk, ident >>

\* ------------------------------------------------------------- streams
\* stream.on('data'), lines 118-151.
StreamData(s, shape) ==
    /\ sess[s].stream \in {"live", "halfclosed"}
    /\ chunksLeft > 0
    /\ chunksLeft' = chunksLeft - 1
    /\ LET raw == [id |-> chunksLeft, first |-> shape[1], len |-> shape[2]]
           dataToSend == Decode(raw)
       IN  /\ lastChunk' = raw
           /\ IF dataToSend.len > 0
              THEN /\ sess' = [sess EXCEPT
                                 ![s].outputHistory = PushHistory(@, dataToSend),
                                 ![s].broadcast = Append(@, dataToSend)]
                   /\ received' = Emit(received, sess[s].connectedSockets,
                                       Event("output", NoContainer, dataToSend, ""))
              ELSE UNCHANGED << sess, received >>
    /\ UNCHANGED << sockState, sessions, sessionKeys, attach, timers, monitoringIntervals,
                    attachLeft, syncVars, stopVars, gitVars, envVars, cliVars, boxVars, typed, ident >>

\* stream.on('error'), lines 153-162.
StreamError(s) ==
    /\ sess[s].stream = "live"
    /\ sess' = [sess EXCEPT ![s].stream = "errored"]
    /\ received' = Emit(received, sess[s].connectedSockets,
                        Event("error", sess[s].containerId, NoChunk, ""))
    /\ UNCHANGED << sockState, sessions, sessionKeys, attach, timers, monitoringIntervals,
                    chunksLeft, attachLeft, syncVars, stopVars, gitVars, envVars, cliVars, boxVars, typed, lastChunk, ident >>

\* StreamEnd without this.sessions.delete(containerId), line 174.
StreamEndKeepsSession(s) ==
    /\ sess[s].stream \in {"live", "halfclosed"}
    /\ LET c == sess[s].containerId
       IN  /\ received' = Emit(received, sess[s].connectedSockets,
                               Event("container-disconnected", NoContainer,
                                     NoChunk, ""))
           /\ StopMonitoring(c)
           /\ UNCHANGED << sessions, sessionKeys >>
           /\ IF shadowRepos[c] # "none"
              THEN /\ pendingCleanup' = pendingCleanup \cup {ShadowPath(c)}
                   /\ shadowRepos' = [shadowRepos EXCEPT ![c] = "none"]
                   /\ run' = [run EXCEPT ![c].repo =
                                IF @ = "shared" THEN shadowRepos[c] ELSE @]
              ELSE UNCHANGED << pendingCleanup, shadowRepos, run >>
    /\ sess' = [sess EXCEPT ![s].stream = "ended"]
    /\ UNCHANGED << sockState, attach, chunksLeft, attachLeft, flight,
                    disk, tempCopy, lastTick, ticksLeft, stopVars, gitVars, envVars, cliVars, boxVars, typed, lastChunk, ident >>

\* stream.on('end'), lines 164-180. cleanup() is called and not awaited; the
\* run in flight keeps the ShadowRepository object it holds.
StreamEnd(s) ==
    /\ sess[s].stream \in {"live", "halfclosed"}
    /\ LET c == sess[s].containerId
       IN  /\ received' = Emit(received, sess[s].connectedSockets,
                               Event("container-disconnected", NoContainer,
                                     NoChunk, ""))
           /\ StopMonitoring(c)
           /\ sessions' = [sessions EXCEPT ![c] = NoSession]
           /\ sessionKeys' = KeyDelete(sessionKeys, c)
           /\ IF shadowRepos[c] # "none"
              THEN /\ pendingCleanup' = pendingCleanup \cup {ShadowPath(c)}
                   /\ shadowRepos' = [shadowRepos EXCEPT ![c] = "none"]
                   /\ run' = [run EXCEPT ![c].repo =
                                IF @ = "shared" THEN shadowRepos[c] ELSE @]
              ELSE UNCHANGED << pendingCleanup, shadowRepos, run >>
    /\ sess' = [sess EXCEPT ![s].stream = "ended"]
    /\ UNCHANGED << sockState, attach, chunksLeft, attachLeft, flight,
                    disk, tempCopy, lastTick, ticksLeft, stopVars, gitVars, envVars, cliVars, boxVars, typed, lastChunk, ident >>

\* ------------------------------------------------------------- shadow repository
\* ShadowRepository.cleanup, part_000 lines 528-533, when it runs: pathExists
\* and remove are two awaits, and every outcome of the pair is the outcome of
\* one removal at the time of the remove (or of the check, when it finds
\* nothing).
Cleanup(d, p) == [d EXCEPT ![p] = Absent]

\* The cleanup() that stream.on('end') started, line 177.
CleanupRun(p) ==
    /\ p \in pendingCleanup
    /\ pendingCleanup' = pendingCleanup \ {p}
    /\ disk' = Cleanup(disk, p)
    /\ UNCHANGED << sessVars, timerVars, flight, shadowRepos, run,
                    tempCopy, lastTick, ticksLeft, stopVars, gitVars, envVars, cliVars, boxVars, typed, lastChunk, ident >>

\* The `initialized` flag of the ShadowRepository the run of c holds.
RunInitialized(c) ==
    IF run[c].repo = "shared" THEN shadowRepos[c] = "init" ELSE run[c].repo = "init"

\* this.initialized = true, part_000 line 305, on the object the run holds.
MarkInitialized(c) ==
    IF run[c].repo = "shared"
    THEN /\ shadowRepos' = [shadowRepos EXCEPT ![c] = "init"]
         /\ run' = [run EXCEPT ![c].pc = "probe"]
    ELSE /\ run' = [run EXCEPT ![c].pc = "probe", ![c].repo = "init"]
         /\ UNCHANGED shadowRepos

\* ------------------------------------------------------------- performSync
Viewing(c) ==
    IF sessions[c] = NoSession THEN {} ELSE sess[sessions[c]].connectedSockets

\* The end of a run: `finally`, web-server.ts lines 446-448.
Release(c, how) ==
    /\ syncInProgress' = syncInProgress \ {c}
    /\ running' = [running EXCEPT ![c] = @ - 1]
    /\ outcome' = [outcome EXCEPT ![c] = how]
    /\ synced' = IF how = "complete"
                 THEN [synced EXCEPT ![c] = [done |-> TRUE, files |-> run[c].snap]]
                 ELSE synced

\* catch, lines 435-445, then finally.
SyncFailed(c) ==
    /\ received' = Emit(received, Viewing(c), Event("sync-error", c, NoChunk, ""))
    /\ Release(c, "error")

\* git status --porcelain in a working tree r, the lines that start with '??':
\* a file of the tree that is not in the index is listed by its path, or by
\* its directory alone when the index holds no file of that directory.
UntrackedFiles(r) ==
    { IF \E g \in r.index : g[2] = f[2] THEN f ELSE << "dir", f[2] >> :
        f \in r.tree \ r.index }

\* lines 399-433, then finally: syncCompleteData with diffData.untrackedFiles
\* of the status output of line 373 (diffData is null without changes).
SyncCompleted(c, hasChanges) ==
    /\ received' = Emit(received, Viewing(c),
                        [type |-> "sync-complete", containerId |-> c,
                         data |-> NoChunk,
                         info |-> IF hasChanges THEN "changes" ELSE "no-changes",
                         untrackedFiles |->
                            IF hasChanges THEN UntrackedFiles(disk[ShadowPath(c)])
                            ELSE {}])
    /\ Release(c, "complete")

\* SyncSkipped with the early return placed outside the try: no finally.
SyncSkippedKeepsMarker(c) ==
    /\ UNCHANGED << received, syncInProgress >>
    /\ running' = [running EXCEPT ![c] = @ - 1]
    /\ outcome' = [outcome EXCEPT ![c] = "skipped"]
    /\ UNCHANGED synced

\* lines 362-365: the early return, then finally.
SyncSkipped(c) ==
    /\ UNCHANGED received
    /\ Release(c, "skipped")

\* The locals of a run: where it is, the ShadowRepository it holds, whether a
\* rejection is on its way to the catch, the files its transfer took from
\* the container, the rejections syncFromContainer has caught so far, and the
\* counts of changes.summary.
Idle == [pc |-> "idle", repo |-> "none", failed |-> FALSE, snap |-> {}, caught |-> 0,
                  summary |-> NoSummary]
NoRequest == [pc |-> "idle", containerId |-> NoContainer, arg |-> ""]
\* A push request carries along the checked-out branch and the local
\* branches its repository had when the request came in.
NoPush == [pc |-> "idle", containerId |-> NoContainer, arg |-> "",
           before |-> [branch |-> NoBranch, branches |-> {}]]

\* TimerFire without the test of lines 337-339.
TimerFireUnguarded(c) ==
    /\ timers[c] > 0
    /\ ticksLeft > 0
    /\ ticksLeft' = ticksLeft - 1
    /\ lastTick' = [containerId |-> c, dropped |-> FALSE]
    /\ syncInProgress' = syncInProgress \cup {c}
    /\ running' = [running EXCEPT ![c] = @ + 1]
    /\ UNCHANGED << outcome, synced >>
    /\ shadowRepos' = [shadowRepos EXCEPT ![c] = IF @ = "none" THEN "uninit" ELSE @]
    /\ run' = [run EXCEPT ![c] =
                 [pc |-> IF shadowRepos[c] = "init" THEN "probe" ELSE "init_rm",
                  repo |-> "shared", failed |-> FALSE, snap |-> {}, caught |-> 0,
                  summary |-> NoSummary]]
    /\ UNCHANGED << sessVars, timerVars, disk, tempCopy, pendingCleanup, stopVars,
                    gitVars, envVars, cliVars, boxVars, typed, lastChunk, ident >>

\* One tick of the setInterval timer of c, lines 460-462: performSync lines
\* 336-356 up to the first await inside syncFromContainer.
TimerFire(c) ==
    /\ timers[c] > 0
    /\ ticksLeft > 0
    /\ ticksLeft' = ticksLeft - 1
    /\ IF c \in syncInProgress
       THEN /\ lastTick' = [containerId |-> c, dropped |-> TRUE]
            /\ UNCHANGED << flight, shadowRepos, run >>
       ELSE /\ lastTick' = [containerId |-> c, dropped |-> FALSE]
            /\ syncInProgress' = syncInProgress \cup {c}
            /\ running' = [running EXCEPT ![c] = @ + 1]
            /\ UNCHANGED << outcome, synced >>
            /\ shadowRepos' = [shadowRepos EXCEPT ![c] =
                                 IF @ = "none" THEN "uninit" ELSE @]
            /\ run' = [run EXCEPT ![c] =
                         [pc |-> IF shadowRepos[c] = "init" THEN "probe" ELSE "init_rm",
                          repo |-> "shared", failed |-> FALSE, snap |-> {}, caught |-> 0,
                  summary |-> NoSummary]]
    /\ UNCHANGED << sessVars, timerVars, disk, tempCopy, pendingCleanup, stopVars,
                    gitVars, envVars, cliVars, boxVars, typed, lastChunk, ident >>

\* A step of the run of c that rejects: the rejection reaches performSync's
\* catch (initialize rethrows, part_000 lines 306-309).
RunThrows(c, at) ==
    /\ run[c].pc \in at
    /\ run' = [run EXCEPT ![c] = Idle]
    /\ SyncFailed(c)
    /\ UNCHANGED << sockState, sessions, sessionKeys, sess, attach, chunksLeft, attachLeft,
                    timerVars, shadowRepos, disk, tempCopy, pendingCleanup,
                    lastTick, ticksLeft, stopVars, gitVars, envVars, cliVars, boxVars, typed, lastChunk, ident >>

RunFrame ==
    UNCHANGED << sessVars, timerVars, flight, pendingCleanup, lastTick,
                 ticksLeft, stopVars, gitVars, envVars, cliVars, boxVars, typed, lastChunk, ident >>

\* initialize, part_000 lines 226-237: remove what is at the shadow path.
InitRemove(c) ==
    /\ run[c].pc = "init_rm"
    /\ disk' = Cleanup(disk, ShadowPath(c))
    /\ run' = [run EXCEPT ![c].pc = "init_clone"]
    /\ UNCHANGED << shadowRepos, tempCopy >>
    /\ RunFrame

\* git clone --single-branch --branch sourceBranch: origin is the source.
Cloned == [exists |-> TRUE, git |-> TRUE, tree |-> {RepoFile}, head |-> {RepoFile},
           index |-> {RepoFile}, origin |-> TRUE, branch |-> SourceBranch,
           branches |-> {SourceBranch}, commits |-> 0]

\* lines 242-257: the branch of the source repository, then the shallow clone.
InitShallowClone(c, ok) ==
    /\ run[c].pc = "init_clone"
    /\ IF ok
       THEN /\ disk' = [disk EXCEPT ![ShadowPath(c)] = Cloned]
            /\ run' = [run EXCEPT ![c].pc = "init_checkout"]
       ELSE /\ run' = [run EXCEPT ![c].pc = "init_clone2"]
            /\ UNCHANGED disk
    /\ UNCHANGED << shadowRepos, tempCopy >>
    /\ RunFrame

\* lines 258-265: the clone without depth limit.
InitFullClone(c, ok) ==
    /\ run[c].pc = "init_clone2"
    /\ IF ok
       THEN /\ disk' = [disk EXCEPT ![ShadowPath(c)] = Cloned]
            /\ run' = [run EXCEPT ![c].pc = "init_checkout"]
       ELSE /\ run' = [run EXCEPT ![c].pc = "init_copy"]
            /\ UNCHANGED disk
    /\ UNCHANGED << shadowRepos, tempCopy >>
    /\ RunFrame

\* lines 266-271: ensureDir, cp -r of the source tree, removal of its .git.
InitCopy(c) ==
    /\ run[c].pc = "init_copy"
    /\ disk' = [disk EXCEPT ![ShadowPath(c)] =
                  [Absent EXCEPT !.exists = TRUE, !.tree = {RepoFile}]]
    /\ run' = [run EXCEPT ![c].pc = "init_git"]
    /\ UNCHANGED << shadowRepos, tempCopy >>
    /\ RunFrame

\* lines 272-275: git init, git add ., git commit, in the shadow path. The new
\* repository is on git's initial branch, whatever the source branch is.
InitGit(c) ==
    /\ run[c].pc = "init_git"
    /\ disk[ShadowPath(c)].exists
    /\ disk' = [disk EXCEPT ![ShadowPath(c)] =
                  [@ EXCEPT !.git = TRUE, !.head = disk[ShadowPath(c)].tree,
                            !.index = disk[ShadowPath(c)].tree,
                            !.origin = FALSE, !.branch = DefaultBranch,
                            !.branches = {DefaultBranch}, !.commits = 0]]
    /\ run' = [run EXCEPT ![c].pc = "init_checkout"]
    /\ UNCHANGED << shadowRepos, tempCopy >>
    /\ RunFrame

\* lines 283-305: git checkout -b in the shadow path unless the target branch
\* is the source branch, the remote (best effort), this.initialized = true;
\* then syncFromContainer goes on, lines 317-319.
InitCheckout(c, sameBranch) ==
    /\ run[c].pc = "init_checkout"
    /\ sameBranch \/ disk[ShadowPath(c)].git
    /\ MarkInitialized(c)
    /\ disk' = IF sameBranch THEN disk
               ELSE [disk EXCEPT ![ShadowPath(c)].branch = ClaudeBranch,
                                 ![ShadowPath(c)].branches = @ \cup {ClaudeBranch}]
    /\ UNCHANGED tempCopy
    /\ RunFrame

\* syncFromContainer, lines 319-372: the ownership fix (every failure caught)
\* and checkRsyncInContainer (returns a boolean, never throws).
Probe(c, hasRsync) ==
    /\ run[c].pc = "probe"
    /\ run' = [run EXCEPT ![c].pc = IF hasRsync THEN "rs_mkdir" ELSE "cp_rm"]
    /\ UNCHANGED << shadowRepos, disk, tempCopy >>
    /\ RunFrame

\* The positions of a run inside the ownership fix and checkRsyncInContainer
\* when its commands are followed one by one: chown approach n, the
\* verification, which rsync, install command n, which rsync after it.
ChownPc(n) == << "probe", "chown_2", "chown_3" >>[n]
InstallPc(n) == << "install_1", "install_2", "install_3", "install_4" >>[n]
RecheckPc(n) == << "which_1", "which_2", "which_3", "which_4" >>[n]
ProbePcs ==
    { ChownPc(n) : n \in 1..OwnershipApproaches } \cup { "verify", "which" }
       \cup { InstallPc(n) : n \in 1..InstallCommands }
       \cup { RecheckPc(n) : n \in 1..InstallCommands }

\* A step of a run that changes only the position of the run and the count of
\* the rejections caught.
ProbeStep(c, pc, rejected) ==
    /\ run' = [run EXCEPT ![c].pc = pc,
                          ![c].caught = IF rejected THEN @ + 1 ELSE @]
    /\ UNCHANGED << shadowRepos, disk, tempCopy >>
    /\ RunFrame

\* OwnershipFix with the innermost catch of line 340 left out: the third
\* rejection leaves syncFromContainer.
OwnershipFixThrowing(c, n, ok) ==
    /\ n \in 1..OwnershipApproaches
    /\ run[c].pc = ChownPc(n)
    /\ IF ~ok /\ n = OwnershipApproaches
       THEN /\ run' = [run EXCEPT ![c] = Idle]
            /\ SyncFailed(c)
            /\ UNCHANGED << sockState, sessions, sessionKeys, sess, attach, chunksLeft,
                            attachLeft, timerVars, shadowRepos, disk, tempCopy,
                            pendingCleanup, lastTick, ticksLeft, stopVars, gitVars,
                            envVars, cliVars, boxVars, typed, lastChunk, ident >>
       ELSE ProbeStep(c, IF ok THEN "verify" ELSE ChownPc(n + 1), ~ok)

\* syncFromContainer, part_000 lines 326-344: chown approach n (as root, as
\* the default user, with sudo); a rejection goes on to the next approach, the
\* last one on to line 358.
OwnershipFix(c, n, ok) ==
    /\ n \in 1..OwnershipApproaches
    /\ run[c].pc = ChownPc(n)
    /\ ProbeStep(c, IF ok THEN "verify"
                    ELSE IF n < OwnershipApproaches THEN ChownPc(n + 1)
                    ELSE "which", ~ok)

\* lines 347-357: the verification with ls -la; its rejection is caught.
OwnershipVerify(c, ok) ==
    /\ run[c].pc = "verify"
    /\ ProbeStep(c, "which", ~ok)

\* checkRsyncInContainer, lines 378-381: which rsync.
RsyncWhich(c, ok) ==
    /\ run[c].pc = "which"
    /\ ProbeStep(c, IF ok THEN "rs_mkdir" ELSE InstallPc(1), ~ok)

\* lines 394-396 and 401-408: install command n; a rejection goes on to the
\* next command, the last one returns false.
RsyncInstall(c, n, ok) ==
    /\ n \in 1..InstallCommands
    /\ run[c].pc = InstallPc(n)
    /\ ProbeStep(c, IF ok THEN RecheckPc(n)
                    ELSE IF n < InstallCommands THEN InstallPc(n + 1)
                    ELSE "cp_rm", ~ok)

\* lines 398-404: which rsync after install command n.
RsyncRecheck(c, n, ok) ==
    /\ n \in 1..InstallCommands
    /\ run[c].pc = RecheckPc(n)
    /\ ProbeStep(c, IF ok THEN "rs_mkdir"
                    ELSE IF n < InstallCommands THEN InstallPc(n + 1)
                    ELSE "cp_rm", ~ok)

\* What a copy into the directory at p leaves there: the directory is created
\* when missing, files are added or overwritten, none is removed.
CopyInto(d, p, files) ==
    [d EXCEPT ![p] = [@ EXCEPT !.exists = TRUE, !.tree = @ \cup files]]

\* syncWithRsync, lines 418-430: mkdir of the staging directory in the
\* container.
RsyncMkdir(c) ==
    /\ run[c].pc = "rs_mkdir"
    /\ run' = [run EXCEPT ![c].pc = "rs_stage"]
    /\ UNCHANGED << shadowRepos, disk, tempCopy >>
    /\ RunFrame

\* lines 422-430: rsync --delete into the staging directory, with its excludes.
RsyncStage(c) ==
    /\ run[c].pc = "rs_stage"
    /\ staging' = [staging EXCEPT ![c] = workspace[c] \ Excluded(RsyncExcludes)]
    /\ run' = [run EXCEPT ![c].pc = "rs_copy",
                          ![c].snap = workspace[c] \ Excluded(RsyncExcludes)]
    /\ UNCHANGED << shadowRepos, disk, tempCopy >>
    /\ UNCHANGED << sessVars, timerVars, flight, pendingCleanup, lastTick,
                    ticksLeft, stopVars, gitVars, workspace, editsLeft, cliVars, boxVars, typed, lastChunk, ident >>

\* line 433: docker cp of the staging directory into the shadow path.
RsyncCopy(c) ==
    /\ run[c].pc = "rs_copy"
    /\ disk' = CopyInto(disk, ShadowPath(c), staging[c])
    /\ run' = [run EXCEPT ![c].pc = "rs_rm"]
    /\ UNCHANGED << shadowRepos, tempCopy >>
    /\ RunFrame

\* line 433 rejecting after docker cp has written some of the files: the
\* rejection reaches performSync's catch.
RsyncCopyPartial(c, files) ==
    /\ run[c].pc = "rs_copy"
    /\ files # {} /\ files \subseteq staging[c] /\ files # staging[c]
    /\ disk' = CopyInto(disk, ShadowPath(c), files)
    /\ run' = [run EXCEPT ![c] = Idle]
    /\ SyncFailed(c)
    /\ UNCHANGED << sockState, sessions, sessionKeys, sess, attach, chunksLeft, attachLeft,
                    timerVars, shadowRepos, tempCopy, pendingCleanup,
                    lastTick, ticksLeft, stopVars, gitVars, envVars, cliVars, boxVars, typed, lastChunk, ident >>

\* line 436: removal of the staging directory; performSync goes on, line 359.
RsyncRemove(c) ==
    /\ run[c].pc = "rs_rm"
    /\ staging' = [staging EXCEPT ![c] = {}]
    /\ run' = [run EXCEPT ![c].pc = "check_git"]
    /\ UNCHANGED << shadowRepos, disk, tempCopy >>
    /\ UNCHANGED << sessVars, timerVars, flight, pendingCleanup, lastTick,
                    ticksLeft, stopVars, gitVars, workspace, editsLeft, cliVars, boxVars, typed, lastChunk, ident >>

\* syncWithDockerCp, lines 443-449: temp-copy is removed when it exists.
CpRemoveTemp(c) ==
    /\ run[c].pc = "cp_rm"
    /\ tempCopy' = NoTemp
    /\ run' = [run EXCEPT ![c].pc = "cp_mk"]
    /\ UNCHANGED << shadowRepos, disk >>
    /\ RunFrame

\* line 452: ensureDir(tempCopyPath).
CpMakeTemp(c) ==
    /\ run[c].pc = "cp_mk"
    /\ tempCopy' = [tempCopy EXCEPT !.exists = TRUE]
    /\ run' = [run EXCEPT ![c].pc = "cp_fetch"]
    /\ UNCHANGED << shadowRepos, disk >>
    /\ RunFrame

\* line 455: docker cp of the workspace into temp-copy; a rejection goes to
\* the finally of line 496.
CpFetch(c, ok) ==
    /\ run[c].pc = "cp_fetch"
    /\ IF ok
       THEN /\ tempCopy' = [exists |-> TRUE, files |-> tempCopy.files \cup workspace[c]]
            /\ run' = [run EXCEPT ![c].pc = "cp_merge",
                                  ![c].snap = workspace[c] \ Excluded(DockerCpExcludes)]
       ELSE /\ run' = [run EXCEPT ![c].pc = "cp_fin", ![c].failed = TRUE]
            /\ UNCHANGED tempCopy
    /\ UNCHANGED << shadowRepos, disk >>
    /\ RunFrame

\* lines 458-494: rsync on the host from temp-copy into the shadow path (or the
\* find and copy loop), with the excludes, then chown (failure caught). Both
\* copies reject when temp-copy is gone.
CpMerge(c, ok) ==
    /\ run[c].pc = "cp_merge"
    /\ IF ok /\ tempCopy.exists
       THEN /\ disk' = CopyInto(disk, ShadowPath(c),
                                tempCopy.files \ Excluded(DockerCpExcludes))
            /\ run' = [run EXCEPT ![c].pc = "cp_fin"]
       ELSE /\ run' = [run EXCEPT ![c].pc = "cp_fin", ![c].failed = TRUE]
            /\ UNCHANGED disk
    /\ UNCHANGED << shadowRepos, tempCopy >>
    /\ RunFrame

\* lines 461-484 rejecting after some of the files were written: rsync stops
\* partway and the copy loop that takes over stops partway too.
CpMergePartial(c, files) ==
    /\ run[c].pc = "cp_merge"
    /\ tempCopy.exists
    /\ files # {}
    /\ files \subseteq tempCopy.files \ Excluded(DockerCpExcludes)
    /\ files # tempCopy.files \ Excluded(DockerCpExcludes)
    /\ disk' = CopyInto(disk, ShadowPath(c), files)
    /\ run' = [run EXCEPT ![c].pc = "cp_fin", ![c].failed = TRUE]
    /\ UNCHANGED << shadowRepos, tempCopy >>
    /\ RunFrame

\* lines 496-501: the finally removes temp-copy; then either the rejection
\* reaches performSync's catch or performSync goes on, line 359.
CpFinally(c) ==
    /\ run[c].pc = "cp_fin"
    /\ tempCopy' = NoTemp
    /\ IF run[c].failed
       THEN /\ run' = [run EXCEPT ![c] = Idle]
            /\ SyncFailed(c)
       ELSE /\ run' = [run EXCEPT ![c].pc = "check_git"]
            /\ UNCHANGED << received, flight >>
    /\ UNCHANGED << sockState, sessions, sessionKeys, sess, attach, chunksLeft, attachLeft,
                    timerVars, shadowRepos, disk, pendingCleanup, lastTick,
                    ticksLeft, stopVars, gitVars, envVars, cliVars, boxVars, typed, lastChunk, ident >>

\* performSync lines 359-365: the .git test.
CheckGit(c) ==
    /\ run[c].pc = "check_git"
    /\ IF disk[ShadowPath(c)].git
       THEN /\ run' = [run EXCEPT ![c].pc = "get_changes"]
            /\ UNCHANGED << received, flight >>
       ELSE /\ run' = [run EXCEPT ![c] = Idle]
            /\ SyncSkipped(c)
    /\ UNCHANGED << sockState, sessions, sessionKeys, sess, attach, chunksLeft, attachLeft,
                    timerVars, shadowRepos, disk, tempCopy, pendingCleanup,
                    lastTick, ticksLeft, stopVars, gitVars, envVars, cliVars, boxVars, typed, lastChunk, ident >>

\* git status --porcelain in a working tree r: one line << X, Y, path >> for
\* every file of HEAD or of the index that differs between HEAD and the
\* index (X: A added, D deleted) or between the index and the tree (Y: D
\* deleted), and one line ?? for every untracked file or directory. Files
\* are known by their paths alone, so no line says M.
StatusLines(r) ==
    LET X(f) == IF f \in r.index \ r.head THEN "A"
                ELSE IF f \in r.head \ r.index THEN "D" ELSE " "
        Y(f) == IF f \in r.index \ r.tree THEN "D" ELSE " "
    IN  { << X(f), Y(f), f >> :
            f \in { g \in r.head \cup r.index : X(g) # " " \/ Y(g) # " " } }
        \cup { << "?", "?", u >> : u \in UntrackedFiles(r) }

\* getChanges, part_000 lines 513-518: the lines that start with ' M', with
\* '??' and with ' D' are counted.
Summary(r) ==
    LET lines == StatusLines(r)
    IN  [modified |-> Cardinality({ l \in lines : l[1] = " " /\ l[2] = "M" }),
         added |-> Cardinality({ l \in lines : l[1] = "?" /\ l[2] = "?" }),
         deleted |-> Cardinality({ l \in lines : l[1] = " " /\ l[2] = "D" })]

\* HasChanges that looks at the index and HEAD only.
HasChangesTrackedOnly(p) == disk[p].index # disk[p].head

\* getChanges, part_000 lines 504-521: git status --porcelain in the shadow
\* path; it rejects when the path is no git working tree.
HasChanges(p) == disk[p].tree # disk[p].index \/ disk[p].index # disk[p].head

\* performSync line 368 and, without changes, lines 416-433.
GetChanges(c) ==
    /\ run[c].pc = "get_changes"
    /\ IF ~disk[ShadowPath(c)].git
       THEN /\ run' = [run EXCEPT ![c] = Idle]
            /\ SyncFailed(c)
       ELSE IF HasChanges(ShadowPath(c))
       THEN /\ run' = [run EXCEPT ![c].pc = "diff",
                                  ![c].summary = Summary(disk[ShadowPath(c)])]
            /\ UNCHANGED << received, flight >>
       ELSE /\ run' = [run EXCEPT ![c] = Idle]
            /\ SyncCompleted(c, FALSE)
    /\ UNCHANGED << sockState, sessions, sessionKeys, sess, attach, chunksLeft, attachLeft,
                    timerVars, shadowRepos, disk, tempCopy, pendingCleanup,
                    lastTick, ticksLeft, stopVars, gitVars, envVars, cliVars, boxVars, typed, lastChunk, ident >>

\* lines 371-433: git status (a rejection reaches the catch), git diff HEAD and
\* git diff (rejections caught), the emission.
Diff(c) ==
    /\ run[c].pc = "diff"
    /\ run' = [run EXCEPT ![c] = Idle]
    /\ IF ~disk[ShadowPath(c)].git
       THEN SyncFailed(c)
       ELSE SyncCompleted(c, TRUE)
    /\ UNCHANGED << sockState, sessions, sessionKeys, sess, attach, chunksLeft, attachLeft,
                    timerVars, shadowRepos, disk, tempCopy, pendingCleanup,
                    lastTick, ticksLeft, stopVars, gitVars, envVars, cliVars, boxVars, typed, lastChunk, ident >>

\* The steps at which an external command of the run can reject whatever the
\* state of the model: git and cp in initialize, docker exec and docker cp in
\* syncWithRsync, git status in getChanges and performSync.
Rejecting ==
    { "init_clone", "init_copy", "init_git", "init_checkout",
      "rs_mkdir", "rs_stage", "rs_copy", "rs_rm", "get_changes", "diff" }

\* ------------------------------------------------------------- container
\* A process of container c changes /workspace: files are written and removed.
ContainerEdit(c, files) ==
    /\ editsLeft > 0
    /\ files \subseteq FilePool(c) \cup BuildFiles(c)
    /\ files # workspace[c]
    /\ editsLeft' = editsLeft - 1
    /\ workspace' = [workspace EXCEPT ![c] = files]
    /\ UNCHANGED << sessVars, timerVars, syncVars, stopVars, gitVars,
                    staging, cliVars, boxVars, typed, lastChunk, ident >>

\* ------------------------------------------------------------- commit and push
\* What a request may carry as commitMessage: nothing, "" or a text.
CommitMessages == { "missing", "empty", "text" }
\* What a request may carry as branchName: nothing, 'main' or another name.
PushBranchNames == { "", "main", "feature" }

GitFrame ==
    UNCHANGED << sockState, sessions, sessionKeys, sess, attach, chunksLeft, attachLeft,
                 timerVars, flight, shadowRepos, run, tempCopy, pendingCleanup,
                 lastTick, ticksLeft, stopVars, envVars, cliVars, boxVars, typed, lastChunk, ident >>

\* A git command run with cwd shadowPath works only in a git working tree.
IsRepo(p) == disk[p].exists /\ disk[p].git

\* The reply of a handler to the socket that sent the request.
Reply(v, type, info) ==
    received' = Emit(received, {v}, Event(type, NoContainer, NoChunk, info))

\* socket.on('commit-changes'), lines 257-269: up to await git add.
CommitBegin(v, c, msg) ==
    /\ Open(v)
    /\ commit[v].pc = "idle"
    /\ gitLeft > 0
    /\ gitLeft' = gitLeft - 1
    /\ IF shadowRepos[c] = "none"
       THEN /\ Reply(v, "commit-error", "not-found")
            /\ UNCHANGED commit
       ELSE /\ commit' = [commit EXCEPT ![v] =
                            [pc |-> "add", containerId |-> c, arg |-> msg]]
            /\ UNCHANGED received
    /\ UNCHANGED << disk, push, pushes >>
    /\ GitFrame

\* git add . (line 269) done, then line 272 up to await git commit: the
\* argument commitMessage.replace(...) throws a TypeError without a message.
CommitAdd(v) ==
    /\ commit[v].pc = "add"
    /\ LET p == ShadowPath(commit[v].containerId)
       IN  IF ~IsRepo(p)
           THEN /\ Reply(v, "commit-error", "git")
                /\ commit' = [commit EXCEPT ![v] = NoRequest]
                /\ UNCHANGED disk
           ELSE /\ disk' = [disk EXCEPT ![p].index = disk[p].tree]
                /\ IF commit[v].arg = "missing"
                   THEN /\ Reply(v, "commit-error", "type-error")
                        /\ commit' = [commit EXCEPT ![v] = NoRequest]
                   ELSE /\ commit' = [commit EXCEPT ![v].pc = "commit"]
                        /\ UNCHANGED received
    /\ UNCHANGED << push, pushes, gitLeft >>
    /\ GitFrame

\* CommitCommit that pushes the commit it made.
CommitCommitPushing(v) ==
    /\ commit[v].pc = "commit"
    /\ LET p == ShadowPath(commit[v].containerId)
       IN  IF ~IsRepo(p) \/ commit[v].arg = "empty" \/ disk[p].index = disk[p].head
           THEN /\ Reply(v, "commit-error", "git")
                /\ UNCHANGED << disk, pushes >>
           ELSE /\ disk' = [disk EXCEPT ![p].head = disk[p].index,
                                        ![p].commits = @ + 1]
                /\ pushes' = pushes + 1
                /\ Reply(v, "commit-success", "")
    /\ commit' = [commit EXCEPT ![v] = NoRequest]
    /\ UNCHANGED << push, gitLeft >>
    /\ GitFrame

\* git commit -m "..." (lines 272-274) done, then lines 276-281. git refuses
\* an empty message and a commit of nothing.
CommitCommit(v) ==
    /\ commit[v].pc = "commit"
    /\ LET p == ShadowPath(commit[v].containerId)
       IN  IF ~IsRepo(p) \/ commit[v].arg = "empty" \/ disk[p].index = disk[p].head
           THEN /\ Reply(v, "commit-error", "git")
                /\ UNCHANGED disk
           ELSE /\ disk' = [disk EXCEPT ![p].head = disk[p].index,
                                        ![p].commits = @ + 1]
                /\ Reply(v, "commit-success", "")
    /\ commit' = [commit EXCEPT ![v] = NoRequest]
    /\ UNCHANGED << push, pushes, gitLeft >>
    /\ GitFrame

PushFails(v, info) ==
    /\ Reply(v, "push-error", info)
    /\ push' = [push EXCEPT ![v] = NoPush]

\* socket.on('push-changes'), lines 286-300 and 308: up to the first await.
PushBegin(v, c, branchName) ==
    /\ Open(v)
    /\ push[v].pc = "idle"
    /\ gitLeft > 0
    /\ gitLeft' = gitLeft - 1
    /\ IF shadowRepos[c] = "none"
       THEN /\ Reply(v, "push-error", "not-found")
            /\ UNCHANGED push
       ELSE /\ push' = [push EXCEPT ![v] =
                          [pc |-> IF branchName # "" /\ branchName # "main"
                                  THEN "checkout_b" ELSE "remote",
                           containerId |-> c, arg |-> branchName,
                           before |-> [branch |-> disk[ShadowPath(c)].branch,
                                       branches |-> disk[ShadowPath(c)].branches]]]
            /\ UNCHANGED received
    /\ UNCHANGED << disk, commit, pushes >>
    /\ GitFrame

\* git checkout -b branchName (line 300) done: it rejects when the branch
\* exists, and the catch of line 301 goes on to git checkout.
PushCheckoutNew(v) ==
    /\ push[v].pc = "checkout_b"
    /\ LET p == ShadowPath(push[v].containerId)
       IN  IF IsRepo(p) /\ push[v].arg \notin disk[p].branches
           THEN /\ disk' = [disk EXCEPT ![p].branch = push[v].arg,
                                        ![p].branches = @ \cup {push[v].arg}]
                /\ push' = [push EXCEPT ![v].pc = "remote"]
           ELSE /\ push' = [push EXCEPT ![v].pc = "checkout"]
                /\ UNCHANGED disk
    /\ UNCHANGED << received, commit, pushes, gitLeft >>
    /\ GitFrame

\* git checkout branchName (line 303) done; a rejection reaches the catch of
\* line 319. A branch this handler created is the checked-out branch from then
\* on, so the branch switched to has the commit of HEAD.
PushCheckout(v) ==
    /\ push[v].pc = "checkout"
    /\ LET p == ShadowPath(push[v].containerId)
       IN  IF IsRepo(p) /\ push[v].arg \in disk[p].branches
           THEN /\ disk' = [disk EXCEPT ![p].branch = push[v].arg]
                /\ push' = [push EXCEPT ![v].pc = "remote"]
                /\ UNCHANGED received
           ELSE /\ PushFails(v, "git")
                /\ UNCHANGED disk
    /\ UNCHANGED << commit, pushes, gitLeft >>
    /\ GitFrame

\* PushRemote without the test of line 309.
PushRemoteUntested(v) ==
    /\ push[v].pc = "remote"
    /\ IF ~IsRepo(ShadowPath(push[v].containerId))
       THEN PushFails(v, "git")
       ELSE /\ push' = [push EXCEPT ![v].pc =
                          IF push[v].arg = "" THEN "branch" ELSE "push"]
            /\ UNCHANGED received
    /\ UNCHANGED << disk, commit, pushes, gitLeft >>
    /\ GitFrame

\* git remote -v (line 308) done, then lines 309-317 up to the next await.
PushRemote(v) ==
    /\ push[v].pc = "remote"
    /\ LET p == ShadowPath(push[v].containerId)
       IN  IF ~IsRepo(p)
           THEN PushFails(v, "git")
           ELSE IF disk[p].origin
           THEN /\ push' = [push EXCEPT ![v].pc =
                              IF push[v].arg = "" THEN "branch" ELSE "push"]
                /\ UNCHANGED received
           ELSE PushFails(v, "no-remote")
    /\ UNCHANGED << disk, commit, pushes, gitLeft >>
    /\ GitFrame

\* git branch --show-current (line 311) done.
PushShowBranch(v) ==
    /\ push[v].pc = "branch"
    /\ IF IsRepo(ShadowPath(push[v].containerId))
       THEN /\ push' = [push EXCEPT ![v].pc = "push"]
            /\ UNCHANGED received
       ELSE PushFails(v, "git")
    /\ UNCHANGED << disk, commit, pushes, gitLeft >>
    /\ GitFrame

\* git push -u origin (line 312) done, then lines 313-314 or the catch.
PushPush(v, ok) ==
    /\ push[v].pc = "push"
    /\ IF IsRepo(ShadowPath(push[v].containerId))
       THEN /\ pushes' = pushes + 1
            /\ IF ok
               THEN /\ Reply(v, "push-success", "")
                    /\ push' = [push EXCEPT ![v] = NoPush]
               ELSE PushFails(v, "git")
       ELSE /\ PushFails(v, "git")
            /\ UNCHANGED pushes
    /\ UNCHANGED << disk, commit, gitLeft >>
    /\ GitFrame

\* ------------------------------------------------------------- commit menu
\* What ui.askCommitAction() can resolve to: the cases of part_000 lines
\* 647-660.
CommitActions == { "nothing", "push", "push-pr", "exit" }

MenuFrame ==
    UNCHANGED << sessVars, timerVars, syncVars, stopVars, gitVars, envVars, boxVars, typed, lastChunk, ident >>

\* The git monitor reports a commit, part_000 lines 590-592: handleCommit,
\* lines 636-645, up to await askCommitAction().
MenuOpen ==
    /\ menu = "idle"
    /\ menusLeft > 0
    /\ menusLeft' = menusLeft - 1
    /\ menu' = "asking"
    /\ UNCHANGED cliPushes
    /\ MenuFrame

\* askCommitAction() resolved with the operator's choice, lines 647-660, up to
\* the await of git.push in pushBranch, lines 663-665. With 'exit' the CLI
\* process ends.
MenuChoose(action) ==
    /\ menu = "asking"
    /\ menu' = CASE action = "nothing" -> "idle"
                 [] action = "push" -> "pushing"
                 [] action = "push-pr" -> "pushing-pr"
                 [] action = "exit" -> "exited"
    /\ UNCHANGED << cliPushes, menusLeft >>
    /\ MenuFrame

\* git.push('origin', current) of pushBranch done, lines 663-667; for push-pr,
\* gh pr create follows, lines 669-680.
MenuPush ==
    /\ menu \in {"pushing", "pushing-pr"}
    /\ cliPushes' = cliPushes + 1
    /\ menu' = "idle"
    /\ UNCHANGED menusLeft
    /\ MenuFrame

\* ------------------------------------------------------------- git wrapper
\* The branch names a git invocation inside the container may carry.
BoxBranches == { SourceBranch, ClaudeBranch, "fix" }

\* The command lines of git inside the container, as "$@".
GitArgs ==
    { << "status" >>, << "commit" >> }
    \cup { << "checkout", "-b", b >> : b \in BoxBranches }
    \cup { << "checkout", b >> : b \in BoxBranches }
    \cup { << "switch", b >> : b \in BoxBranches }
    \cup { << "switch", "-c", b >> : b \in BoxBranches }
    \cup { << "-C", "/workspace", "checkout", b >> : b \in BoxBranches }

\* "$n" of a command line: empty when there is no such argument.
Arg(args, n) == IF n <= Len(args) THEN args[n] ELSE ""

\* The command line after git's own option -C <dir>.
Subcommand(args) ==
    IF Arg(args, 1) = "-C" THEN SubSeq(args, 3, Len(args)) ELSE args

\* /usr/bin/git.real "$@" in /workspace: what it does to the checked-out
\* branch and the branches, and its exit status.
GitReal(g, args) ==
    LET a == Subcommand(args)
        creates == \/ Arg(a, 1) = "checkout" /\ Arg(a, 2) = "-b" /\ Len(a) = 3
                   \/ Arg(a, 1) = "switch" /\ Arg(a, 2) = "-c" /\ Len(a) = 3
        switches == Arg(a, 1) \in {"checkout", "switch"} /\ Len(a) = 2
    IN  IF creates
        THEN IF a[3] \in g.branches
             THEN [g |-> g, status |-> 128]
             ELSE [g |-> [g EXCEPT !.branch = a[3], !.branches = @ \cup {a[3]}],
                   status |-> 0]
        ELSE IF switches
        THEN IF a[2] \in g.branches
             THEN [g |-> [g EXCEPT !.branch = a[2]], status |-> 0]
             ELSE [g |-> g, status |-> 1]
        ELSE [g |-> g, status |-> 0]

\* The wrapper script installed as /usr/bin/git, container.ts lines 121-124.
Wrapper(g, args) ==
    IF ~g.marker
    THEN LET r == GitReal(g, args)
         IN  IF Arg(args, 1) = "checkout" /\ Arg(args, 2) = "-b"
             THEN [g |-> [r.g EXCEPT !.marker = TRUE], status |-> r.status]
             ELSE r
    ELSE IF Arg(args, 1) = "checkout" /\ Arg(args, 2) # "-b"
    THEN [g |-> g, status |-> 1]
    ELSE IF Arg(args, 1) = "switch"
    THEN [g |-> g, status |-> 1]
    ELSE GitReal(g, args)

\* A process of the container runs git with the given command line.
BoxGit(args) ==
    /\ gitCallsLeft > 0
    /\ gitCallsLeft' = gitCallsLeft - 1
    /\ containerGit' = Wrapper(containerGit, args).g
    /\ lastGit' = [args |-> args, status |-> Wrapper(containerGit, args).status]
    /\ UNCHANGED << sessVars, timerVars, syncVars, stopVars, gitVars, envVars,
                    cliVars, typed, lastChunk, ident >>

\* ------------------------------------------------------------- stop
\* stop(), lines 510-519, after the loop over the shadow repositories: the
\* streams are ended, the registry is cleared, io.close() disconnects every
\* socket (each disconnect handler then finds no session).
StopSessions ==
    /\ sess' = [s \in SessionIds |->
                  IF (\E c \in Containers : sessions[c] = s) /\ sess[s].stream = "live"
                  THEN [sess[s] EXCEPT !.stream = "halfclosed"]
                  ELSE sess[s]]
    /\ sessions' = [c \in Containers |-> NoSession]
    /\ sessionKeys' = << >>
    /\ sockState' = [v \in Viewers |-> "closed"]
    /\ stopPc' = "closing"

StopFrame ==
    UNCHANGED << attach, received, chunksLeft, attachLeft, timerVars,
                 flight, shadowRepos, run, tempCopy, pendingCleanup,
                 lastTick, ticksLeft, gitVars, envVars, cliVars, boxVars, typed, lastChunk, ident >>

\* stop(), lines 504-508: up to the first await of the loop, or past the loop
\* when there is no shadow repository.
StopBegin ==
    /\ stopPc = "idle"
    /\ IF \A c \in Containers : shadowRepos[c] = "none"
       THEN StopSessions
       ELSE /\ stopPc' = "cleanup"
            /\ UNCHANGED << sess, sessions, sessionKeys, sockState >>
    /\ UNCHANGED << disk, stopVisited >>
    /\ StopFrame

\* One await shadowRepo.cleanup() of the loop resolved, line 507; after the
\* last one, lines 510-519.
StopCleanup(c) ==
    /\ stopPc = "cleanup"
    /\ shadowRepos[c] # "none"
    /\ c \notin stopVisited
    /\ disk' = Cleanup(disk, ShadowPath(c))
    /\ stopVisited' = stopVisited \cup {c}
    /\ IF \A o \in Containers \ {c} : shadowRepos[o] = "none" \/ o \in stopVisited
       THEN StopSessions
       ELSE UNCHANGED << sess, sessions, sessionKeys, sockState, stopPc >>
    /\ StopFrame

\* The loop found its shadow repositories gone (stream.on('end') deleted them
\* while stop() awaited): lines 510-519.
StopLoopEnds ==
    /\ stopPc = "cleanup"
    /\ \A c \in Containers : shadowRepos[c] = "none" \/ c \in stopVisited
    /\ StopSessions
    /\ UNCHANGED << disk, stopVisited >>
    /\ StopFrame

\* httpServer.close's callback, lines 522-527: stop() resolves.
StopReturn ==
    /\ stopPc = "closing"
    /\ stopPc' = "done"
    /\ UNCHANGED << sessVars, timerVars, syncVars, stopVisited, gitVars, envVars, cliVars, boxVars, typed, lastChunk, ident >>

\* ------------------------------------------------------------- specification
\* The state after construction, with the number of chunks the streams are
\* still to emit.
InitWith(chunks, ticks, ids) ==
    /\ sockState = [v \in Viewers |-> "open"]
    /\ sessions = [c \in Containers |-> NoSession]
    /\ sessionKeys = << >>
    /\ sess = [s \in SessionIds |-> FreshSession]
    /\ attach = [v \in Viewers |-> [pc |-> "idle", containerId |-> NoContainer]]
    /\ received = [v \in Viewers |-> << >>]
    /\ timers = [c \in Containers |-> 0]
    /\ monitoringIntervals = {}
    /\ chunksLeft = chunks
    /\ attachLeft = MaxAttach
    /\ syncInProgress = {}
    /\ running = [c \in Containers |-> 0]
    /\ outcome = [c \in Containers |-> "none"]
    /\ synced = [c \in Containers |-> NoSync]
    /\ shadowRepos = [c \in Containers |-> "none"]
    /\ run = [c \in Containers |-> Idle]
    /\ disk = [p \in Paths |-> Absent]
    /\ tempCopy = NoTemp
    /\ pendingCleanup = {}
    /\ lastTick = [containerId |-> NoContainer, dropped |-> FALSE]
    /\ ticksLeft = ticks
    /\ stopPc = "idle"
    /\ stopVisited = {}
    /\ commit = [v \in Viewers |-> NoRequest]
    /\ push = [v \in Viewers |-> NoPush]
    /\ pushes = 0
    /\ gitLeft = MaxGit
    /\ workspace = [c \in Containers |-> Workspace(c)]
    /\ staging = [c \in Containers |-> {}]
    /\ editsLeft = MaxEdits
    /\ menu = "idle"
    /\ cliPushes = 0
    /\ menusLeft = MaxMenus
    /\ containerGit = [marker |-> FALSE, branch |-> SourceBranch,
                       branches |-> {SourceBranch}]
    /\ lastGit = [args |-> << >>, status |-> 0]
    /\ gitCallsLeft = MaxGitCalls
    /\ typed = [v \in Viewers |-> 0]
    /\ lastChunk = NoRaw
    /\ ident \in ids

InitState(chunks) == InitWith(chunks, MaxTicks, {PlainIds})

Init == InitState(MaxChunks)

\* The session registry and the multiplexer of one container.
NextStream ==
    \/ \E v \in Viewers : Disconnect(v)
    \/ \E v \in Viewers, c \in {"c1"} : AttachBegin(v, c)
    \/ \E v \in Viewers : AttachExecCreated(v)
    \/ \E v \in Viewers : AttachFinish(v)
    \/ \E s \in SessionIds, shape \in ChunkShapes : StreamData(s, shape)
    \/ \E s \in SessionIds : StreamEnd(s)

SpecStream == Init /\ [][NextStream]_vars

\* The session registry of two containers.
NextAttach ==
    \/ \E v \in Viewers : Disconnect(v)
    \/ \E v \in Viewers, c \in Containers : AttachBegin(v, c)
    \/ \E v \in Viewers : AttachExecCreated(v)
    \/ \E v \in Viewers : AttachFinish(v)
    \/ \E v \in Viewers : AttachFail(v)
    \/ \E s \in SessionIds : StreamError(s)
    \/ \E s \in SessionIds : StreamEnd(s)

SpecAttach == Init /\ [][NextAttach]_vars

\* The shapes of the chunks of a stream whose history is followed alone: those
\* above, a chunk of more than half the cap, and the chunks next to the edges
\* of the header test (exactly 8 bytes long, first byte 0 or 4).
HistoryShapes ==
    ChunkShapes \cup { << 27, 60000 >>, << 3, 8 >>, << 0, 9 >>, << 4, 9 >> }

\* The history of the one session of one viewer.
NextHistory ==
    \/ attachLeft = MaxAttach /\ AttachBegin("v1", "c1")
    \/ AttachExecCreated("v1")
    \/ AttachFinish("v1")
    \/ \E shape \in HistoryShapes : StreamData(1, shape)

SpecHistory == InitState(HistoryChunks) /\ [][NextHistory]_vars

\* The registry of two containers with the input of the viewers.
NextInput ==
    \/ NextAttach
    \/ \E v \in Viewers : Input(v)

SpecInput == Init /\ [][NextInput]_vars

\* A run of performSync for c, one step.
RunStep(c) ==
    \/ InitRemove(c)
    \/ \E ok \in BOOLEAN : InitShallowClone(c, ok)
    \/ \E ok \in BOOLEAN : InitFullClone(c, ok)
    \/ InitCopy(c)
    \/ InitGit(c)
    \/ \E sameBranch \in BOOLEAN : InitCheckout(c, sameBranch)
    \/ \E hasRsync \in BOOLEAN : Probe(c, hasRsync)
    \/ RsyncMkdir(c)
    \/ RsyncStage(c)
    \/ RsyncCopy(c)
    \/ RsyncRemove(c)
    \/ CpRemoveTemp(c)
    \/ CpMakeTemp(c)
    \/ \E ok \in BOOLEAN : CpFetch(c, ok)
    \/ \E ok \in BOOLEAN : CpMerge(c, ok)
    \/ CpFinally(c)
    \/ CheckGit(c)
    \/ GetChanges(c)
    \/ Diff(c)
    \/ RunThrows(c, Rejecting)

\* The sync scheduler of one container, with the sessions of one viewer.
NextSync ==
    \/ AttachBegin("v1", "c1")
    \/ AttachExecCreated("v1")
    \/ AttachFinish("v1")
    \/ \E s \in SessionIds : StreamEnd(s)
    \/ TimerFire("c1")
    \/ RunStep("c1")
    \/ \E p \in Paths : CleanupRun(p)
    \/ StopBegin
    \/ \E c \in Containers : StopCleanup(c)
    \/ StopLoopEnds
    \/ StopReturn

SpecSync == Init /\ [][NextSync]_vars

\* The sync runs of two containers side by side.
NextIsolation ==
    \/ \E c \in Containers : AttachBegin("v1", c)
    \/ AttachExecCreated("v1")
    \/ AttachFinish("v1")
    \/ \E c \in Containers : TimerFire(c)
    \/ \E c \in Containers : RunStep(c)

SpecIsolation == Init /\ [][NextIsolation]_vars

\* A run of performSync for c in a container that has rsync, one step.
RunStepRsync(c) ==
    \/ InitRemove(c)
    \/ \E ok \in BOOLEAN : InitShallowClone(c, ok)
    \/ InitFullClone(c, FALSE)
    \/ InitCopy(c)
    \/ InitGit(c)
    \/ InitCheckout(c, FALSE)
    \/ Probe(c, TRUE)
    \/ RsyncMkdir(c)
    \/ RsyncStage(c)
    \/ RsyncCopy(c)
    \/ RsyncRemove(c)
    \/ CheckGit(c)
    \/ GetChanges(c)
    \/ Diff(c)
    \/ RunThrows(c, {"init_copy", "init_checkout"})

\* The commit and push handlers of one viewer beside the first sync of one
\* container.
NextGit ==
    \/ attachLeft = MaxAttach /\ AttachBegin("v1", "c1")
    \/ AttachExecCreated("v1")
    \/ AttachFinish("v1")
    \/ Disconnect("v1")
    \/ ticksLeft = MaxTicks /\ TimerFire("c1")
    \/ RunStepRsync("c1")
    \/ \E msg \in CommitMessages : CommitBegin("v1", "c1", msg)
    \/ CommitAdd("v1")
    \/ CommitCommit("v1")
    \/ \E b \in PushBranchNames : PushBegin("v1", "c1", b)
    \/ PushCheckoutNew("v1")
    \/ PushCheckout("v1")
    \/ PushRemote("v1")
    \/ PushShowBranch("v1")
    \/ \E ok \in BOOLEAN : PushPush("v1", ok)

SpecGit == Init /\ [][NextGit]_vars

\* The push paths: the commit and push handlers of one viewer on a repository
\* cloned with its origin remote, and the commit menu of the CLI.
NextPush ==
    \/ attachLeft = MaxAttach /\ AttachBegin("v1", "c1")
    \/ AttachExecCreated("v1")
    \/ AttachFinish("v1")
    \/ ticksLeft = MaxTicks /\ TimerFire("c1")
    \/ InitRemove("c1")
    \/ InitShallowClone("c1", TRUE)
    \/ InitCheckout("c1", FALSE)
    \/ Probe("c1", TRUE)
    \/ RsyncMkdir("c1")
    \/ RsyncStage("c1")
    \/ RsyncCopy("c1")
    \/ RsyncRemove("c1")
    \/ CheckGit("c1")
    \/ GetChanges("c1")
    \/ Diff("c1")
    \/ \E msg \in CommitMessages : CommitBegin("v1", "c1", msg)
    \/ CommitAdd("v1")
    \/ CommitCommit("v1")
    \/ \E b \in PushBranchNames : PushBegin("v1", "c1", b)
    \/ PushCheckoutNew("v1")
    \/ PushCheckout("v1")
    \/ PushRemote("v1")
    \/ PushShowBranch("v1")
    \/ \E ok \in BOOLEAN : PushPush("v1", ok)
    \/ MenuOpen
    \/ \E action \in CommitActions : MenuChoose(action)
    \/ MenuPush

SpecPush == Init /\ [][NextPush]_vars

\* The git invocations inside one container.
NextWrapper ==
    \E args \in GitArgs : BoxGit(args)

SpecWrapper == Init /\ [][NextWrapper]_vars

\* A run of performSync for c none of whose steps rejects, one step.
RunStepClean(c) ==
    \/ InitRemove(c)
    \/ InitShallowClone(c, TRUE)
    \/ InitCheckout(c, FALSE)
    \/ Probe(c, TRUE)
    \/ RsyncMkdir(c)
    \/ RsyncStage(c)
    \/ RsyncCopy(c)
    \/ RsyncRemove(c)
    \/ CheckGit(c)
    \/ GetChanges(c)
    \/ Diff(c)

\* What a process of container c does to /workspace: it adds a file, or
\* removes one.
LiveEdits(c) == { Workspace(c) \cup {NoteFile(c)}, {RepoFile} }

\* The timer of one container beside the sessions of two viewers; the timer
\* fires whenever it is due and every run goes on to its end.
InitLive == InitWith(MaxChunks, LiveTicks, {PlainIds})

NextLive ==
    \/ \E v \in Viewers : AttachBegin(v, "c1")
    \/ \E v \in Viewers : AttachExecCreated(v)
    \/ \E v \in Viewers : AttachFinish(v)
    \/ \E s \in SessionIds : StreamEnd(s)
    \/ \E p \in Paths : CleanupRun(p)
    \/ TimerFire("c1")
    \/ RunStepClean("c1")
    \/ \E files \in LiveEdits("c1") : ContainerEdit("c1", files)

SpecLive ==
    /\ InitLive
    /\ [][NextLive]_vars
    /\ WF_vars(TimerFire("c1"))
    /\ WF_vars(RunStepClean("c1"))

\* The same with one viewer, who attaches once.
NextLiveAlone ==
    \/ attachLeft = MaxAttach /\ AttachBegin("v1", "c1")
    \/ AttachExecCreated("v1")
    \/ AttachFinish("v1")
    \/ \E s \in SessionIds : StreamEnd(s)
    \/ \E p \in Paths : CleanupRun(p)
    \/ TimerFire("c1")
    \/ RunStepClean("c1")
    \/ \E files \in LiveEdits("c1") : ContainerEdit("c1", files)

SpecLiveAlone ==
    /\ InitLive
    /\ [][NextLiveAlone]_vars
    /\ WF_vars(TimerFire("c1"))
    /\ WF_vars(RunStepClean("c1"))

\* One run of performSync with the commands of the ownership fix and of the
\* rsync detection followed one by one.
NextProbe ==
    \/ attachLeft = MaxAttach /\ AttachBegin("v1", "c1")
    \/ AttachExecCreated("v1")
    \/ AttachFinish("v1")
    \/ ticksLeft = MaxTicks /\ TimerFire("c1")
    \/ InitRemove("c1")
    \/ InitShallowClone("c1", TRUE)
    \/ InitCheckout("c1", FALSE)
    \/ \E n \in 1..OwnershipApproaches, ok \in BOOLEAN : OwnershipFix("c1", n, ok)
    \/ \E ok \in BOOLEAN : OwnershipVerify("c1", ok)
    \/ \E ok \in BOOLEAN : RsyncWhich("c1", ok)
    \/ \E n \in 1..InstallCommands, ok \in BOOLEAN : RsyncInstall("c1", n, ok)
    \/ \E n \in 1..InstallCommands, ok \in BOOLEAN : RsyncRecheck("c1", n, ok)
    \/ RsyncMkdir("c1")
    \/ RsyncStage("c1")
    \/ RsyncCopy("c1")
    \/ RsyncRemove("c1")
    \/ CpRemoveTemp("c1")
    \/ CpMakeTemp("c1")
    \/ \E ok \in BOOLEAN : CpFetch("c1", ok)
    \/ \E ok \in BOOLEAN : CpMerge("c1", ok)
    \/ CpFinally("c1")
    \/ CheckGit("c1")
    \/ GetChanges("c1")
    \/ Diff("c1")
    \/ RunThrows("c1", Rejecting)

SpecProbe == Init /\ [][NextProbe]_vars

\* What a process of container c adds to /workspace: a file of its own, an
\* installed package, a virtual environment.
ExcludeEdits(c) ==
    { Workspace(c) \cup {f} : f \in {NoteFile(c)} \cup BuildFiles(c) }

\* The first sync of two containers: c1 has rsync, c2 has not and cannot
\* install it. /workspace changes before the timers tick.
NextExclude ==
    \/ \E c \in Containers : AttachBegin("v1", c)
    \/ AttachExecCreated("v1")
    \/ AttachFinish("v1")
    \/ \E c \in Containers :
          ticksLeft = MaxTicks /\ \E files \in ExcludeEdits(c) : ContainerEdit(c, files)
    \/ \E c \in Containers : shadowRepos[c] = "none" /\ TimerFire(c)
    \/ \E c \in Containers : InitRemove(c)
    \/ \E c \in Containers : InitShallowClone(c, TRUE)
    \/ \E c \in Containers : InitCheckout(c, FALSE)
    \/ Probe("c1", TRUE)
    \/ Probe("c2", FALSE)
    \/ \E c \in Containers : RsyncMkdir(c)
    \/ \E c \in Containers : RsyncStage(c)
    \/ \E c \in Containers : RsyncCopy(c)
    \/ \E c \in Containers : RsyncRemove(c)
    \/ \E c \in Containers : CpRemoveTemp(c)
    \/ \E c \in Containers : CpMakeTemp(c)
    \/ \E c \in Containers : CpFetch(c, TRUE)
    \/ \E c \in Containers : CpMerge(c, TRUE)
    \/ \E c \in Containers : CpFinally(c)
    \/ \E c \in Containers : CheckGit(c)
    \/ \E c \in Containers : GetChanges(c)
    \/ \E c \in Containers : Diff(c)

SpecExclude == Init /\ [][NextExclude]_vars

\* The syncs of two containers whose identifiers are any two different ones.
NextPaths ==
    \/ \E c \in Containers : AttachBegin("v1", c)
    \/ AttachExecCreated("v1")
    \/ AttachFinish("v1")
    \/ \E c \in Containers : TimerFire(c)
    \/ \E c \in Containers : RunStepClean(c)

SpecPaths == InitWith(MaxChunks, MaxTicks, IdChoices) /\ [][NextPaths]_vars

\* The syncs of one container beside the commit requests of its viewer.
NextSummary ==
    \/ attachLeft = MaxAttach /\ AttachBegin("v1", "c1")
    \/ AttachExecCreated("v1")
    \/ AttachFinish("v1")
    \/ TimerFire("c1")
    \/ RunStepClean("c1")
    \/ \E files \in LiveEdits("c1") : ContainerEdit("c1", files)
    \/ \E msg \in CommitMessages : CommitBegin("v1", "c1", msg)
    \/ CommitAdd("v1")
    \/ CommitCommit("v1")

SpecSummary == Init /\ [][NextSummary]_vars

\* The push requests of one viewer that come in after the first sync of the
\* container has run to its end.
NextBranch ==
    \/ attachLeft = MaxAttach /\ AttachBegin("v1", "c1")
    \/ AttachExecCreated("v1")
    \/ AttachFinish("v1")
    \/ ticksLeft = MaxTicks /\ TimerFire("c1")
    \/ RunStep("c1")
    \/ \E b \in PushBranchNames :
          /\ shadowRepos["c1"] = "init"
          /\ run["c1"].pc = "idle"
          /\ PushBegin("v1", "c1", b)
    \/ PushCheckoutNew("v1")
    \/ PushCheckout("v1")
    \/ PushRemote("v1")
    \/ PushShowBranch("v1")
    \/ \E ok \in BOOLEAN : PushPush("v1", ok)

SpecBranch == Init /\ [][NextBranch]_vars

\* A copy into the shadow path that stops partway.
RunStepPartial(c) ==
    \/ \E files \in SUBSET FilePool(c) : RsyncCopyPartial(c, files)
    \/ \E files \in SUBSET FilePool(c) : CpMergePartial(c, files)

\* The mirror of one container whose workspace changes between syncs.
NextMirror ==
    \/ AttachBegin("v1", "c1")
    \/ AttachExecCreated("v1")
    \/ AttachFinish("v1")
    \/ TimerFire("c1")
    \/ RunStep("c1")
    \/ RunStepPartial("c1")
    \/ \E files \in SUBSET FilePool("c1") : ContainerEdit("c1", files)

SpecMirror == Init /\ [][NextMirror]_vars

\* ------------------------------------------------------------- properties
Last(seq) == seq[Len(seq)]
IsPrefix(a, b) == Len(a) <= Len(b) /\ SubSeq(b, 1, Len(a)) = a

RECURSIVE IsSubseq(_, _)
IsSubseq(a, b) ==
    IF a = << >> THEN TRUE
    ELSE IF b = << >> THEN FALSE
    ELSE IF Head(a) = Head(b) THEN IsSubseq(Tail(a), Tail(b))
    ELSE IsSubseq(a, Tail(b))

Outputs(chunks) ==
    [i \in 1..Len(chunks) |-> Event("output", NoContainer, chunks[i], "")]

\* The exec/stream pairs of container c that are in use.
LiveSessions(c) ==
    { s \in SessionIds : sess[s].containerId = c /\ sess[s].stream = "live" }

\* C1 (as claimed): every container has at most one exec/stream pair in use,
\* and every connected viewer of a pair of that container is in the viewer set
\* of the session registered for it, also when the attach requests overlap.
C1_OnePairAllViewers ==
    \A c \in Containers :
        /\ Cardinality(LiveSessions(c)) <= 1
        /\ \A s \in LiveSessions(c) :
              sessions[c] # NoSession =>
                  { v \in sess[s].connectedSockets : Open(v) }
                      \subseteq sess[sessions[c]].connectedSockets

\* C2: a container has at most one sync run in progress at any instant, and a
\* tick that finds a run in progress for its container is dropped: it changes
\* no state of the server, so it starts nothing and emits nothing.
C2_SingleFlight ==
    [][ /\ \A c \in Containers : running'[c] <= 1
        /\ (ticksLeft' # ticksLeft /\ lastTick'.containerId \in syncInProgress)
              => /\ lastTick'.dropped
                 /\ UNCHANGED << sessVars, timerVars, flight, shadowRepos, run,
                                 disk, tempCopy, pendingCleanup, stopVars, gitVars, envVars, cliVars, boxVars, typed, lastChunk, ident >>
      ]_vars

\* C2 witness: a tick was dropped while the run it met is still going on.
C2_Witness ==
    /\ lastTick.dropped
    /\ lastTick.containerId = "c1"
    /\ run["c1"].pc \notin {"idle", "init_rm"}

\* C3: a container is in the syncing set exactly while a sync run for it is
\* executing, whichever way its last run ended.
C3_MarkedWhileRunning ==
    \A c \in Containers :
        /\ (c \in syncInProgress) <=> (running[c] > 0)
        /\ (running[c] > 0) <=> (run[c].pc # "idle")

\* C3 witness: a run left by the early return on a missing .git, and the
\* container is out of the syncing set.
C3_Witness ==
    /\ outcome["c1"] = "skipped"
    /\ run["c1"].pc = "idle"
    /\ "c1" \notin syncInProgress

\* C4 (as claimed): the step that ends a sync run sends sync-complete or
\* sync-error for that container to every connected viewer of its session.
C4_EveryRunReports ==
    [][ \A c \in Containers :
          (c \in syncInProgress /\ c \notin syncInProgress')
             => \A v \in Viewing(c) :
                   Open(v) => /\ Len(received'[v]) = Len(received[v]) + 1
                              /\ Last(received'[v]).type \in {"sync-complete", "sync-error"}
                              /\ Last(received'[v]).containerId = c
      ]_vars

\* C5 (as claimed): when the .git test of a run finds files but no .git in the
\* shadow path, every connected viewer of the session is sent an event, and
\* that event is not a sync-complete without changes.
C5_MissingGitReported ==
    [][ \A c \in Containers :
          ( /\ run[c].pc = "check_git"
            /\ run'[c].pc # "check_git"
            /\ disk[ShadowPath(c)].exists
            /\ disk[ShadowPath(c)].tree # {}
            /\ ~disk[ShadowPath(c)].git )
             => \A v \in Viewing(c) :
                   Open(v) => /\ Len(received'[v]) > Len(received[v])
                              /\ ~( /\ Last(received'[v]).type = "sync-complete"
                                    /\ Last(received'[v]).info = "no-changes" )
      ]_vars

\* An attach step of viewer v that took the existing-session branch.
AttachedExisting(v) ==
    /\ attachLeft' # attachLeft
    /\ attach' = attach
    /\ received'[v] # received[v]

\* No event a viewer has been sent is ever taken back or reordered.
AppendOnly == \A v \in Viewers : IsPrefix(received[v], received'[v])

\* C6 (as claimed): a viewer attaching to an existing session whose broadcast
\* chunks total less than the cap is sent exactly those chunks, in order and
\* nothing else, ahead of everything sent to it later.
C6_ReplayExact ==
    [][ /\ AppendOnly
        /\ \A v \in Viewers :
              AttachedExisting(v) =>
                 LET c == Last(received'[v]).containerId
                     s == sessions[c]
                 IN  SumLen(sess[s].broadcast) < HistoryCap =>
                        received'[v] = received[v] \o Outputs(sess[s].broadcast)
                                         \o << Event("attached", c, NoChunk, "") >>
      ]_vars

\* C6 (amended): such a viewer is sent nothing when no chunk was broadcast,
\* and otherwise the clear-screen sequence followed by exactly those chunks in
\* order, ahead of everything sent to it later.
C6_ReplayAfterClear ==
    [][ /\ AppendOnly
        /\ \A v \in Viewers :
              AttachedExisting(v) =>
                 LET c == Last(received'[v]).containerId
                     s == sessions[c]
                     sent == sess[s].broadcast
                 IN  SumLen(sent) < HistoryCap =>
                        received'[v] =
                            received[v]
                            \o (IF sent = << >> THEN << >>
                                ELSE << Event("output", NoContainer, ClearScreen, "") >>
                                     \o Outputs(sent))
                            \o << Event("attached", c, NoChunk, "") >>
      ]_vars

\* C6 witness: a viewer was replayed two chunks, after the clear-screen
\* sequence and before the confirmation of its attach.
C6_Witness ==
    \E v \in Viewers : \E s \in SessionIds :
        /\ Len(sess[s].broadcast) = 2
        /\ Len(received[v]) >= 4
        /\ \E i \in 1..(Len(received[v]) - 3) :
              /\ received[v][i].data = ClearScreen
              /\ received[v][i + 1].data = sess[s].broadcast[1]
              /\ received[v][i + 2].data = sess[s].broadcast[2]
              /\ received[v][i + 3].type = "attached"

\* C7: every chunk a session broadcasts is appended, with the same bytes, to
\* what each connected viewer of its viewer set has been sent, and nothing sent
\* is reordered: a viewer attached over two chunks gets them in stream order.
C7_BroadcastInOrder ==
    [][ /\ AppendOnly
        /\ \A s \in SessionIds :
              sess'[s].broadcast # sess[s].broadcast =>
                 \A v \in sess[s].connectedSockets :
                    Open(v) =>
                       received'[v] =
                           Append(received[v],
                                  Event("output", NoContainer,
                                        Last(sess'[s].broadcast), ""))
      ]_vars

\* C7 witness: two viewers of one session were both sent its two chunks, in
\* the order of the stream.
C7_Witness ==
    \E s \in SessionIds :
        /\ Len(sess[s].broadcast) = 2
        /\ sess[s].connectedSockets = Viewers
        /\ \A v \in Viewers :
              /\ Len(received[v]) >= 2
              /\ SubSeq(received[v], Len(received[v]) - 1, Len(received[v]))
                    = Outputs(sess[s].broadcast)

\* C8 (as claimed): the history of every session totals at most the cap, and
\* holds chunks of the stream in the order of the stream.
C8_HistoryWithinCap ==
    \A s \in SessionIds :
        /\ SumLen(sess[s].outputHistory) <= HistoryCap
        /\ IsSubseq(sess[s].outputHistory, sess[s].broadcast)

\* C9 (as claimed): once a sync of container a has failed, container b is in
\* the syncing set only for a run of its own, b's timer is live while b has a
\* session, and b's shadow working tree holds no file of a.
C9_FailureIsolated ==
    \A a \in Containers : \A b \in Containers \ {a} :
        outcome[a] = "error" =>
            /\ (b \in syncInProgress => run[b].pc # "idle")
            /\ (sessions[b] # NoSession => timers[b] > 0)
            /\ WorkFile(a) \notin disk[ShadowPath(b)].tree

\* C10 (as claimed): once stop() has returned, no timer ticks and no sync run
\* starts.
C10_QuietAfterStop ==
    [][ stopPc = "done" => (ticksLeft' = ticksLeft /\ running' = running) ]_vars

\* C11 (as claimed): once stop() has returned, no sync run is going on and no
\* cleanup is still to run, no shadow path exists on disk.
C11_NoShadowDirAfterStop ==
    ( /\ stopPc = "done"
      /\ \A c \in Containers : run[c].pc = "idle"
      /\ pendingCleanup = {} )
        => \A p \in Paths : ~disk[p].exists

\* C12 (as claimed): stop() removes a shadow repository only when no stream
\* of a registered session is still writable and no timer is live, clears the
\* timers only when no such stream is writable, and returns with the streams
\* ended, the timers cleared and the shadow repositories of the map removed.
C12_StopInOrder ==
    [][ /\ stopVisited' # stopVisited
           => /\ \A c \in Containers :
                    sessions[c] # NoSession => sess[sessions[c]].stream # "live"
              /\ \A c \in Containers : timers[c] = 0
        /\ (stopPc # "done" /\ stopPc' = "done")
           => /\ \A s \in SessionIds : sess'[s].stream # "live"
              /\ \A c \in Containers : timers'[c] = 0
              /\ \A c \in stopVisited' : ~disk'[ShadowPath(c)].exists
      ]_vars

\* The commit request a step of the commit-changes handler of v belongs to.
CommitStep(v) == commit'[v] # commit[v]
CommitOf(v) == IF commit[v].pc # "idle" THEN commit[v] ELSE commit'[v]

\* C13 (as claimed): no step of a commit-changes request whose message is
\* missing or empty changes the index, HEAD or the commits of the shadow
\* repository, and the request ends with commit-error to its sender.
C13_EmptyMessageRejected ==
    [][ \A v \in Viewers :
          (CommitStep(v) /\ CommitOf(v).arg \in {"missing", "empty"})
             => LET p == ShadowPath(CommitOf(v).containerId)
                IN  /\ disk'[p].index = disk[p].index
                    /\ disk'[p].head = disk[p].head
                    /\ disk'[p].commits = disk[p].commits
                    /\ (commit'[v].pc = "idle" /\ Open(v))
                          => /\ Len(received'[v]) = Len(received[v]) + 1
                             /\ Last(received'[v]).type = "commit-error"
      ]_vars

C15_UninitializedRejected ==
    [][ \A v \in Viewers :
          /\ (gitLeft' # gitLeft /\ CommitStep(v))
                => shadowRepos[commit'[v].containerId] = "init"
          /\ (gitLeft' # gitLeft /\ commit' = commit /\ push' = push
                /\ received'[v] # received[v])
                => Last(received'[v]).info = "not-found"
      ]_vars

\* C18: a disconnect of viewer v leaves the registry, every session's stream
\* and history, the timers, the syncing set, the shadow repositories and the
\* sync runs, commits and pushes in flight as they are: it only takes v out of
\* viewer sets, and a session left without viewers stays registered.
C18_DisconnectFrame ==
    [][ \A v \in Viewers :
          (sockState[v] = "open" /\ sockState'[v] = "closed" /\ stopPc' = stopPc)
             => /\ sessions' = sessions
                /\ \A s \in SessionIds :
                      \/ sess'[s] = sess[s]
                      \/ sess'[s] = [sess[s] EXCEPT !.connectedSockets = @ \ {v}]
                /\ UNCHANGED << attach, received, chunksLeft, attachLeft, timerVars,
                                syncVars, stopVars, gitVars, envVars, cliVars, boxVars, typed, lastChunk, ident >>
      ]_vars

\* C18 witness: the only viewer of a session has disconnected while a sync run
\* and a commit were in flight; the session is registered with no viewer.
C18_Witness ==
    /\ sockState["v1"] = "closed"
    /\ sessions["c1"] # NoSession
    /\ sess[sessions["c1"]].connectedSockets = {}
    /\ sess[sessions["c1"]].stream = "live"
    /\ run["c1"].pc # "idle"
    /\ commit["v1"].pc # "idle"
    /\ timers["c1"] = 1

\* C16: the end of a session's stream sends container-disconnected to every
\* connected viewer of its viewer set and leaves the session's container
\* without registry entry; an attach joins a session only when one is
\* registered, and a session newly registered is a new session object.
C16_StreamEndPurges ==
    [][ /\ \A s \in SessionIds :
              (sess[s].stream \in {"live", "halfclosed"} /\ sess'[s].stream = "ended")
                 => /\ \A v \in sess[s].connectedSockets :
                          Open(v) =>
                             received'[v] =
                                 Append(received[v],
                                        Event("container-disconnected", NoContainer,
                                              NoChunk, ""))
                    /\ sessions'[sess[s].containerId] = NoSession
                    /\ \A c \in Containers : sessions'[c] # s
        /\ \A v \in Viewers :
              AttachedExisting(v) => sessions[Last(received'[v]).containerId] # NoSession
        /\ \A c \in Containers :
              (sessions'[c] # sessions[c] /\ sessions'[c] # NoSession)
                 => sess[sessions'[c]].stream = "none"
      ]_vars

\* C16 witness: a viewer was sent container-disconnected when the stream of
\* its session ended, attached again to the same container, and a new session
\* is registered for it.
C16_Witness ==
    \E v \in Viewers : \E s1, s2 \in SessionIds :
        /\ s1 # s2
        /\ sess[s1].stream = "ended"
        /\ sess[s2].stream = "live"
        /\ sess[s1].containerId = sess[s2].containerId
        /\ sessions[sess[s2].containerId] = s2
        /\ v \in sess[s2].connectedSockets
        /\ \E i, j \in 1..Len(received[v]) :
              /\ i < j
              /\ received[v][i].type = "container-disconnected"
              /\ received[v][j].type = "attached"

\* C17 (as claimed): an error of a session's stream notifies the connected
\* viewers of its viewer set, removes the session from the registry, and
\* leaves the sessions of the other containers as they are.
C17_StreamErrorTearsDown ==
    [][ \A s \in SessionIds :
          (sess[s].stream = "live" /\ sess'[s].stream = "errored")
             => /\ \A v \in sess[s].connectedSockets :
                      Open(v) => Len(received'[v]) = Len(received[v]) + 1
                /\ \A c \in Containers : sessions'[c] # s
                /\ \A c \in Containers \ {sess[s].containerId} :
                      sessions'[c] = sessions[c]
                /\ \A o \in SessionIds \ {s} : sess'[o] = sess[o]
      ]_vars

\* The step that ends a run of c with the given outcome.
RunEnds(c, how) == running'[c] < running[c] /\ outcome'[c] = how

\* C19 (as claimed): when a sync run succeeds, a file of the container that is
\* in the shadow working tree is one the run found in the container: a file an
\* earlier sync copied and the container has deleted since is gone.
C19_DeletionsMirrored ==
    [][ \A c \in Containers :
          RunEnds(c, "complete")
             => \A f \in {WorkFile(c), NoteFile(c)} :
                   f \in disk'[ShadowPath(c)].tree => f \in run[c].snap
      ]_vars

\* C20 (as claimed): a step at which a sync run of an existing repository
\* fails leaves .git as it is (present, with its HEAD, index, branches and
\* commits) and leaves the working tree either as it was or with the complete
\* content the run took from the container.
C20_FailureAllOrNothing ==
    [][ \A c \in Containers :
          LET p == ShadowPath(c)
              fails == \/ run'[c].failed /\ ~run[c].failed
                       \/ RunEnds(c, "error")
          IN  (fails /\ disk[p].git)
                 => /\ disk'[p].git
                    /\ disk'[p].head = disk[p].head
                    /\ disk'[p].index = disk[p].index
                    /\ disk'[p].branches = disk[p].branches
                    /\ disk'[p].commits = disk[p].commits
                    /\ \/ disk'[p].tree = disk[p].tree
                       \/ disk'[p].tree = disk[p].tree \cup run[c].snap
                       \/ disk'[p].tree = run[c].snap
      ]_vars

\* The sync-complete events the step sends report hasChanges as given.
Reports(c, info) ==
    \A v \in Viewing(c) :
        Open(v) => /\ Len(received'[v]) = Len(received[v]) + 1
                   /\ Last(received'[v]).type = "sync-complete"
                   /\ Last(received'[v]).info = info

InitPcs == { "init_rm", "init_clone", "init_clone2", "init_copy", "init_git",
             "init_checkout" }

\* C22 (as claimed): initialize() goes to the full clone only from a shallow
\* clone that failed and to the copy only from a full clone that failed, both
\* leaving no repository behind; the step that marks the repository
\* initialized finds a .git directory with the target branch (the source
\* branch or the Claude branch) checked out; a run that fails inside
\* initialize() leaves the repository not initialized.
C22_InitializeFallbacks ==
    [][ \A c \in Containers :
          LET p == ShadowPath(c) IN
          /\ (run[c].pc # "init_clone2" /\ run'[c].pc = "init_clone2")
                => (run[c].pc = "init_clone" /\ ~disk'[p].git)
          /\ (run[c].pc # "init_copy" /\ run'[c].pc = "init_copy")
                => (run[c].pc = "init_clone2" /\ ~disk'[p].git)
          /\ (run[c].pc = "init_checkout" /\ run'[c].pc = "probe")
                => /\ disk'[p].git
                   /\ disk'[p].branch \in {SourceBranch, ClaudeBranch}
          /\ (run[c].pc \in InitPcs /\ RunEnds(c, "error") /\ run[c].repo = "shared")
                => shadowRepos'[c] # "init"
          /\ (run[c].pc \in InitPcs \ {"init_checkout"} /\ run'[c].pc \in InitPcs)
                => ~RunInitialized(c)'
      ]_vars

\* C23 (as claimed): while a container has an entry in the shadow-repository
\* map, which is all the commit-changes and push-changes handlers test, its
\* shadow path is absent or holds a .git directory, and an entry marked
\* initialized has its .git directory on disk.
C23_ValidOrAbsent ==
    \A c \in Containers :
        shadowRepos[c] # "none" =>
            /\ (disk[ShadowPath(c)].exists => disk[ShadowPath(c)].git)
            /\ (shadowRepos[c] = "init" => disk[ShadowPath(c)].git)

\* C24 (as claimed): when a session of container c has ended, no session is
\* registered for c, no sync run of c is going on and no cleanup is still to
\* run, the shadow path of c does not exist and c has no entry in the
\* shadow-repository map.
C24_CleanAfterSessionEnd ==
    \A c \in Containers :
        ( /\ \E s \in SessionIds : sess[s].containerId = c /\ sess[s].stream = "ended"
          /\ sessions[c] = NoSession
          /\ run[c].pc = "idle"
          /\ pendingCleanup = {} )
            => /\ ~disk[ShadowPath(c)].exists
               /\ shadowRepos[c] = "none"

C26_BranchPinned ==
    [][ containerGit.marker => containerGit'.branch = containerGit.branch ]_vars

\* C27: the step that ends an attach request of viewer v for which a session
\* had to be created either registers a new session, or (the exec channel was
\* not created) sends v one error event and nothing to any other viewer, and
\* leaves the registry, every session and the timers as they are.
C27_AttachFailureContained ==
    [][ \A v \in Viewers :
          (attach[v].pc \in {"exec", "start"} /\ attach'[v].pc = "idle")
             => \/ sessions'[attach[v].containerId] # sessions[attach[v].containerId]
                \/ /\ Open(v) =>
                         /\ Len(received'[v]) = Len(received[v]) + 1
                         /\ IsPrefix(received[v], received'[v])
                         /\ Last(received'[v]).type = "error"
                   /\ ~Open(v) => received'[v] = received[v]
                   /\ \A w \in Viewers \ {v} : received'[w] = received[w]
                   /\ UNCHANGED << sessions, sessionKeys, sess, timerVars >>
      ]_vars

\* C27 witness: the attach of v1 to c1 failed: v1 was sent the error, c1 has no
\* session object, registry entry or timer, and the session of c2 with its
\* viewer v2 is live.
C27_Witness ==
    /\ attach["v1"].pc = "idle"
    /\ received["v1"] # << >>
    /\ Last(received["v1"]).type = "error"
    /\ Last(received["v1"]).containerId = "c1"
    /\ \A i \in 1..Len(received["v1"]) : received["v1"][i].type # "attached"
    /\ \A s \in SessionIds : sess[s].containerId # "c1"
    /\ sessions["c1"] = NoSession
    /\ timers["c1"] = 0
    /\ sessions["c2"] # NoSession
    /\ sess[sessions["c2"]].stream = "live"
    /\ sess[sessions["c2"]].connectedSockets = {"v2"}
    /\ Len(received["v2"]) = 1

\* C28 (as claimed): an input event of viewer v is written to the stream of a
\* live session that has v in its viewer set, when there is one, and to no
\* other stream; it changes nothing else.
C28_InputToOwnSession ==
    [][ \A v \in Viewers :
          typed'[v] # typed[v] =>
             LET holders == { s \in SessionIds :
                                v \in sess[s].connectedSockets /\ sess[s].stream = "live" }
                 wrote == { s \in SessionIds : sess'[s].written # sess[s].written }
             IN  /\ wrote \subseteq holders
                 /\ Cardinality(wrote) <= 1
                 /\ holders # {} => wrote # {}
                 /\ \A s \in SessionIds :
                       sess'[s] = [sess[s] EXCEPT !.written = sess'[s].written]
                 /\ UNCHANGED << sockState, sessions, attach, received, timerVars >>
      ]_vars

\* C29 (as claimed): in every reachable state a container has a live
\* monitoring timer exactly when a session is registered for it, and it never
\* has more than one.
C29_TimerIffSession ==
    \A c \in Containers :
        /\ (timers[c] > 0) <=> (sessions[c] # NoSession)
        /\ timers[c] <= 1

\* The longest suffix of a sequence of chunks that totals at most the cap.
RECURSIVE LongestFit(_)
LongestFit(chunks) ==
    IF SumLen(chunks) <= HistoryCap THEN chunks ELSE LongestFit(Tail(chunks))

\* C30 (as claimed): the history of a session whose chunks each fit under the
\* cap is the longest suffix of the chunks it has emitted that totals at most
\* the cap: eviction stops as soon as the total is back under the cap.
C30_LongestSuffixKept ==
    \A s \in SessionIds :
        (\A i \in 1..Len(sess[s].broadcast) : sess[s].broadcast[i].len <= HistoryCap)
            => sess[s].outputHistory = LongestFit(sess[s].broadcast)

\* The chunk a 'data' event passed on: the one its session broadcast last.
PassedOn(s) == Last(sess[s].broadcast)

\* C31: the header-decode step passes a chunk on without its first 8 bytes
\* exactly when the chunk is longer than 8 bytes and its first byte is 1, 2 or
\* 3; every other chunk is passed on unchanged, from its first byte and in
\* its full length.
C31_HeaderDecode ==
    [][ lastChunk' # lastChunk =>
           \E s \in SessionIds :
              /\ Len(sess'[s].broadcast) = Len(sess[s].broadcast) + 1
              /\ Last(sess'[s].broadcast).id = lastChunk'.id
              /\ IF lastChunk'.len > HeaderSize /\ lastChunk'.first \in {1, 2, 3}
                 THEN /\ Last(sess'[s].broadcast).off = HeaderSize
                      /\ Last(sess'[s].broadcast).len = lastChunk'.len - HeaderSize
                 ELSE /\ Last(sess'[s].broadcast).off = 0
                      /\ Last(sess'[s].broadcast).len = lastChunk'.len
      ]_vars

\* C31 witness: a stream has delivered a chunk of 9 bytes whose first byte is
\* 2, passed on as its last byte alone, and then a chunk of exactly 8 bytes
\* whose first byte is 3, passed on whole.
C31_Witness ==
    \E s \in SessionIds :
        /\ Len(sess[s].broadcast) = 2
        /\ sess[s].broadcast[1].off = 8
        /\ sess[s].broadcast[1].len = 1
        /\ lastChunk.first = 3
        /\ lastChunk.len = 8
        /\ PassedOn(s) = [id |-> lastChunk.id, off |-> 0, len |-> 8]

\* C32 (as claimed): the exec of a session has a TTY, so every chunk of its
\* stream is unframed output of the process; each one is broadcast and stored
\* in the history from its first byte on and in its full length, whatever the
\* first byte and the length are.
C32_UnframedOutputIntact ==
    \A s \in SessionIds :
        /\ \A i \in 1..Len(sess[s].broadcast) : sess[s].broadcast[i].off = 0
        /\ \A i \in 1..Len(sess[s].outputHistory) : sess[s].outputHistory[i].off = 0
        /\ (sess[s].broadcast # << >> /\ PassedOn(s).id = lastChunk.id) =>
              PassedOn(s).len = lastChunk.len

\* Container c has a session whose stream is open.
Alive(c) == LiveSessions(c) # {}

\* The last sync run of c that went through took exactly the files F.
Covered(c, F) == synced[c].done /\ synced[c].files = F

\* C33 (as claimed): while a session of the container is alive and the timer
\* has ticks left, a state of /workspace is eventually the one a sync run has
\* taken, unless /workspace changes again first (and then the new state is
\* the one to be covered).
C33_EventuallySynced ==
    \A F \in SUBSET FilePool("c1") :
        (workspace["c1"] = F /\ Alive("c1"))
           ~> \/ Covered("c1", F)
              \/ workspace["c1"] # F
              \/ ~Alive("c1")
              \/ ticksLeft = 0

\* C34: while a run is in the ownership fix or in the rsync detection, no
\* outcome of its commands ends the run or marks it failed: the run stays in
\* flight and goes on inside these steps or into a transfer, into the plain
\* copy when the detection and every installation have failed. A sync-error
\* therefore comes from a step of initialize, of a transfer or after it.
C34_ProbeNeverFails ==
    [][ \A c \in Containers :
           run[c].pc \in ProbePcs =>
              /\ run'[c].pc \in ProbePcs \cup {"rs_mkdir", "cp_rm"}
              /\ ~run'[c].failed
              /\ c \in syncInProgress'
              /\ outcome'[c] = outcome[c]
              /\ received' = received
              /\ (run[c].pc \in {InstallPc(InstallCommands), RecheckPc(InstallCommands)}
                     /\ run'[c].caught > run[c].caught) => run'[c].pc = "cp_rm"
      ]_vars

\* C34 witness: a run has come through the plain copy, with the file of the
\* container in the shadow working tree, after all three ownership approaches,
\* which rsync and all four install commands were rejected.
C34_Witness ==
    /\ run["c1"].pc = "check_git"
    /\ ~run["c1"].failed
    /\ run["c1"].caught = OwnershipApproaches + 1 + InstallCommands
    /\ WorkFile("c1") \in disk[ShadowPath("c1")].tree

\* The files of a tree by where they lie, whatever container they are from.
Layout(files) ==
    { IF f[1] \in Containers THEN << "own", f[2] >> ELSE f : f \in files }

\* C35 (as claimed): when the rsync path has synced one container and the
\* plain-copy path another, the two workspaces hold the same files and the two
\* shadow trees started out the same (as the clone left them), the two shadow
\* working trees hold the same files.
C35_SamePathsSameTree ==
    ( /\ outcome["c1"] = "complete"
      /\ outcome["c2"] = "complete"
      /\ Layout(workspace["c1"]) = Layout(workspace["c2"]) )
    => Layout(disk[ShadowPath("c1")].tree) = Layout(disk[ShadowPath("c2")].tree)

\* C36 (as claimed): two different containers that both have a shadow
\* repository have different shadow paths.
C36_DistinctShadowPaths ==
    \A a, b \in Containers :
        (a # b /\ shadowRepos[a] # "none" /\ shadowRepos[b] # "none")
           => ShadowPath(a) # ShadowPath(b)

\* C37 (as claimed): when getChanges reports changes, the three counts of its
\* summary add up to the number of paths git status lists as changed, also
\* after a commit attempt has staged files and failed.
C37_CountsAddUp ==
    [][ \A c \in Containers :
           (run[c].pc = "get_changes" /\ run'[c].pc = "diff") =>
              run'[c].summary.modified + run'[c].summary.added
                    + run'[c].summary.deleted
                 = Cardinality(StatusLines(disk[ShadowPath(c)]))
      ]_vars

\* The sessions in the registry.
Registered == { sessions[c] : c \in Containers } \ {NoSession}

\* C38 (as claimed): a viewer is in the viewer set of at most one registered
\* session, whatever containers it has attached to and whenever it has
\* disconnected.
C38_ViewerInOneSession ==
    \A v \in Viewers :
        Cardinality({ s \in Registered : v \in sess[s].connectedSockets }) <= 1

\* C39 (as claimed): when the stream of session s ends while another session
\* with an open stream is the one registered for the container, that session
\* stays registered, the timer of the container keeps running and its shadow
\* repository is kept.
C39_StreamEndOwnSession ==
    [][ \A s \in SessionIds :
           (sess[s].stream = "live" /\ sess'[s].stream = "ended") =>
              \A c \in Containers :
                 ( /\ sessions[c] \notin {NoSession, s}
                   /\ sess[sessions[c]].stream = "live" )
                 => /\ sessions'[c] = sessions[c]
                    /\ timers'[c] = timers[c]
                    /\ shadowRepos'[c] = shadowRepos[c]
                    /\ pendingCleanup' = pendingCleanup
      ]_vars

\* C40 (as claimed): when a push request ends with push-error, the
\* repository has the checked-out branch and the local branches it had when
\* the request came in.
C40_PushErrorLeavesBranches ==
    [][ \A v \in Viewers :
           ( /\ push[v].pc # "idle"
             /\ push'[v].pc = "idle"
             /\ Len(received'[v]) = Len(received[v]) + 1
             /\ Last(received'[v]).type = "push-error" )
           => LET p == ShadowPath(push[v].containerId)
              IN  /\ disk'[p].branch = push[v].before.branch
                  /\ disk'[p].branches = push[v].before.branches
      ]_vars
====
